---------------------------- MODULE Spec2Model ----------------------------
(***************************************************************************)
(* Model of virtmem's BaseVAlloc (src/src/base_alloc.cpp): the paging      *)
(* engine, the lock subsystem and the free-list allocator.                  *)
(*                                                                         *)
(* The machine state is carried through the operators as one record `s`;   *)
(* each C++ function is an operator from a state (and arguments) to the    *)
(* state it leaves (and its result).  Memory is an array of cells; a       *)
(* header field occupies one cell.                                          *)
(***************************************************************************)
EXTENDS Integers, Sequences, FiniteSets, TLC

(* ------------------------------ bounds -------------------------------- *)
\* capacity of the backing store (constructor argument)
poolSize == 21
\* page sizes and page counts of the three classes (template arguments)
smallSize == 1
mediumSize == 2
bigSize == 3
smallCount == 1
mediumCount == 1
bigCount == 2
\* number of public calls explored per behaviour
MaxOps == 3
\* number of distinct data values a caller writes
MaxVal == 2
\* lowest address the paging calls of SpecPage use
PageLo == 17
\* lowest address the paging calls of SpecCoherence use
WinLo == 13
\* number of locks a caller holds at once
MaxHeld == 5
\* number of public calls per behaviour of SpecCoherence
CohOps == 6
\* number of public calls per behaviour of SpecAlloc
AllocOps == 5
\* largest request of allocRaw, in bytes
MaxAlloc == 3
\* a request of more than a big page, which takes most of the pool tail
BigAlloc == 7
\* number of public calls per behaviour of SpecLock
LockOps == 6
\* lowest address the lock calls of SpecLock use
LockLo == 11
\* SpecWriteBack: number of calls and the lowest address locked
WbOps == 6
WbLo == 13
\* the lowest address saveRawData is tried at
SaveLo == 12

(* ------------------ constants of internal/base_alloc.h ---------------- *)
\* sizeof(UMemHeader): two fields, one cell each
HeaderSize == 2
START_OFFSET == 1
BASE_INDEX == 255
MIN_ALLOC_SIZE == 3
PAGE_MAX_CLEAN_SKIPS == 2

Small == 1
Medium == 2
Big == 3
Classes == {Small, Medium, Big}

PSize(c) == CASE c = Small -> smallSize [] c = Medium -> mediumSize [] OTHER -> bigSize
PCount(c) == CASE c = Small -> smallCount [] c = Medium -> mediumCount [] OTHER -> bigCount

Min(a, b) == IF a <= b THEN a ELSE b
Max(a, b) == IF a >= b THEN a ELSE b

\* pagefindstate of pullRawData
STATE_GOTFULL == 0
STATE_GOTPARTIAL == 1
STATE_GOTEMPTY == 2
STATE_GOTCLEAN == 3
STATE_GOTDIRTY == 4
STATE_GOTNONE == 5

VARIABLES
    store,          \* the backing store: address -> cell
    mem,            \* per class, the pool array the page buffers are cut from
    pg,             \* per class, per slot: start, size, dirty, locks, cleanSkips, next
    freeIndex,      \* per class, head of the free chain
    lockedIndex,    \* per class, head of the locked chain
    nextPageToSwap,
    freePointer,
    baseFreeList,   \* the RAM sentinel header
    poolFreePos,
    fault,          \* "" or why the program ended: a failed ASSERT, a copy out of bounds
    asserts,        \* the "return 0" paths the last call took
    ops,            \* number of public calls made
    last,           \* the last public call and what it returned
    shadow,         \* ghost: address -> the cell last written by write()
    wrote,          \* ghost: the ranges <<p, n>> given to write(), or stored through a
                    \* lock, and not written since
    live,           \* ghost: payload address of each live block -> its requested size,
                    \* the pattern written to it, and whether the allocator ran since
    failed,         \* ghost: the sizes allocRaw failed for since the last freeRaw
    held            \* ghost: addresses of the locks the caller holds (a bag)

vars == <<store, mem, pg, freeIndex, lockedIndex, nextPageToSwap, freePointer,
          baseFreeList, poolFreePos, fault, asserts, ops, last, shadow, wrote,
          live, failed, held>>

\* the machine state as one record
State ==
    [store |-> store, mem |-> mem, pg |-> pg, freeIndex |-> freeIndex,
     lockedIndex |-> lockedIndex, nextPageToSwap |-> nextPageToSwap,
     freePointer |-> freePointer, baseFreeList |-> baseFreeList,
     poolFreePos |-> poolFreePos, fault |-> "", asserts |-> {}]

Fault(s, why) == IF s.fault = "" THEN [s EXCEPT !.fault = why] ELSE s
\* ASSERT(cond): a failed assertion ends the program
AssertThat(s, cond, label) == IF cond THEN s ELSE Fault(s, label)
\* the ASSERT(false) in front of a "return 0": the documented failure result
\* is modelled, and the assertion noted
ReturnsZero(s, label) == [s EXCEPT !.asserts = @ \cup {label}]

(* ------------------------- raw memory access -------------------------- *)
\* n cells of the pool of page i of class c, from offset off
PoolRead(s, c, i, off, n) ==
    [k \in 1..n |->
        LET x == i * PSize(c) + off + k - 1
        IN IF x \in DOMAIN s.mem[c] THEN s.mem[c][x] ELSE 0]

\* memcpy(pool + off, d, Len(d)); a copy past the class's pool array leaves
\* defined behaviour
PoolWrite(s, c, i, off, d) ==
    LET base == i * PSize(c) + off
        s1 == [s EXCEPT !.mem[c] =
                 [x \in DOMAIN @ |->
                    IF x >= base /\ x < base + Len(d) THEN d[x - base + 1] ELSE @[x]]]
    IN IF Len(d) > 0 /\ (base < 0 \/ base + Len(d) > PCount(c) * PSize(c))
       THEN Fault(s1, "overflow") ELSE s1

\* doRead(dest, p, n): the n cells handed to dest; a cell outside the pool
\* reads as -1, a value no cell of the store holds
doRead(s, p, n) ==
    [k \in 1..n |-> IF p + k - 1 \in DOMAIN s.store THEN s.store[p + k - 1] ELSE -1]

doWrite(s, d, p) ==
    LET s1 == [s EXCEPT !.store =
                 [a \in DOMAIN @ |->
                    IF a >= p /\ a < p + Len(d) THEN d[a - p + 1] ELSE @[a]]]
    IN IF Len(d) > 0 /\ (p < 0 \/ p + Len(d) > poolSize)
       THEN Fault(s1, "store") ELSE s1

Suffix(d, from) == SubSeq(d, from, Len(d))

(* --------------------------- paging engine ---------------------------- *)
\* syncBigPage that marks a dirty page clean without writing it to the store
syncBigPageUnwritten(s, i) ==
    LET page == s.pg[Big][i]
        s0 == AssertThat(s, page.start # 0, "syncBigPage")
    IN IF page.dirty
       THEN [s0 EXCEPT !.pg[Big][i].dirty = FALSE, !.pg[Big][i].cleanSkips = 0]
       ELSE s0

\* a syncBigPage that writes the whole buffer wherever the page is mapped
syncBigPageWhole(s, i) ==
    LET page == s.pg[Big][i]
        s0 == AssertThat(s, page.start # 0, "syncBigPage")
    IN IF page.dirty
       THEN [doWrite(s0, PoolRead(s0, Big, i, 0, bigSize), page.start)
                EXCEPT !.pg[Big][i].dirty = FALSE, !.pg[Big][i].cleanSkips = 0]
       ELSE s0

syncBigPage(s, i) ==
    LET page == s.pg[Big][i]
        wrsize == Min(poolSize - page.start, bigSize)
        s0 == AssertThat(s, page.start # 0, "syncBigPage")
    IN IF page.dirty
       THEN [doWrite(s0, PoolRead(s0, Big, i, 0, wrsize), page.start)
                EXCEPT !.pg[Big][i].dirty = FALSE, !.pg[Big][i].cleanSkips = 0]
       ELSE s0

\* dest is the destination's content; the result is its content afterwards
RECURSIVE copyRawDataFrom(_, _, _, _, _, _)
copyRawDataFrom(s, i, dest, doff, p, size) ==
    IF i = -1 \/ size = 0
    THEN IF size > 0
         THEN [k \in 1..Len(dest) |->
                 IF k > doff /\ k <= doff + size THEN doRead(s, p, size)[k - doff]
                 ELSE dest[k]]
         ELSE dest
    ELSE LET page == s.pg[Big][i]
             pageend == page.start + bigSize
         IN IF page.start = 0
            THEN copyRawDataFrom(s, page.next, dest, doff, p, size)
            ELSE IF p >= page.start /\ p < pageend
            THEN LET offset == p - page.start
                     copysize == Min(size, page.size - offset)
                     src == PoolRead(s, Big, i, offset, copysize)
                     d1 == [k \in 1..Len(dest) |->
                              IF k > doff /\ k <= doff + copysize THEN src[k - doff]
                              ELSE dest[k]]
                 IN copyRawDataFrom(s, page.next, d1, doff + copysize,
                                    p + copysize, size - copysize)
            ELSE IF p < page.start /\ p + size > page.start
            THEN LET offset == page.start - p
                     copysize == Min(size - offset, page.size)
                     src == PoolRead(s, Big, i, 0, copysize)
                     d1 == [k \in 1..Len(dest) |->
                              IF k > doff + offset /\ k <= doff + offset + copysize
                              THEN src[k - doff - offset] ELSE dest[k]]
                 IN copyRawDataFrom(s, page.next, d1, doff, p, offset)
            ELSE copyRawDataFrom(s, page.next, dest, doff, p, size)

\* copyRawData(dest, p, size): the size cells at dest afterwards
copyRawData(s, dest, p, size) ==
    copyRawDataFrom(s, s.freeIndex[Big], dest, 0, p, size)

RECURSIVE saveRawDataFrom(_, _, _, _, _, _)
\* a saveRawData that copies and marks the page without comparing
saveRawDataCopying(s, i, src, soff, p, size) ==
    IF i = -1 \/ size = 0
    THEN IF size > 0 THEN doWrite(s, SubSeq(src, soff + 1, soff + size), p) ELSE s
    ELSE LET page == s.pg[Big][i]
             pageend == page.start + bigSize
         IN IF page.start = 0
            THEN saveRawDataFrom(s, page.next, src, soff, p, size)
            ELSE IF p >= page.start /\ p < pageend
            THEN LET offset == p - page.start
                     copysize == Min(size, page.size - offset)
                     d == SubSeq(src, soff + 1, soff + copysize)
                     s1 == IF TRUE
                           THEN [PoolWrite(s, Big, i, offset, d)
                                    EXCEPT !.pg[Big][i].dirty = TRUE]
                           ELSE s
                 IN saveRawDataFrom(s1, page.next, src, soff + copysize,
                                    p + copysize, size - copysize)
            ELSE IF p < page.start /\ p + size > page.start
            THEN LET offset == page.start - p
                     copysize == Min(size - offset, page.size)
                     d == SubSeq(src, soff + offset + 1, soff + offset + copysize)
                     s1 == IF TRUE
                           THEN [PoolWrite(s, Big, i, 0, d)
                                    EXCEPT !.pg[Big][i].dirty = TRUE]
                           ELSE s
                 IN saveRawDataFrom(s1, page.next, src, soff, p, offset)
            ELSE saveRawDataFrom(s, page.next, src, soff, p, size)

saveRawDataFrom(s, i, src, soff, p, size) ==
    IF i = -1 \/ size = 0
    THEN IF size > 0 THEN doWrite(s, SubSeq(src, soff + 1, soff + size), p) ELSE s
    ELSE LET page == s.pg[Big][i]
             pageend == page.start + bigSize
         IN IF page.start = 0
            THEN saveRawDataFrom(s, page.next, src, soff, p, size)
            ELSE IF p >= page.start /\ p < pageend
            THEN LET offset == p - page.start
                     copysize == Min(size, page.size - offset)
                     d == SubSeq(src, soff + 1, soff + copysize)
                     s1 == IF page.dirty \/ PoolRead(s, Big, i, offset, copysize) # d
                           THEN [PoolWrite(s, Big, i, offset, d)
                                    EXCEPT !.pg[Big][i].dirty = TRUE]
                           ELSE s
                 IN saveRawDataFrom(s1, page.next, src, soff + copysize,
                                    p + copysize, size - copysize)
            ELSE IF p < page.start /\ p + size > page.start
            THEN LET offset == page.start - p
                     copysize == Min(size - offset, page.size)
                     d == SubSeq(src, soff + offset + 1, soff + offset + copysize)
                     s1 == IF page.dirty \/ PoolRead(s, Big, i, 0, copysize) # d
                           THEN [PoolWrite(s, Big, i, 0, d)
                                    EXCEPT !.pg[Big][i].dirty = TRUE]
                           ELSE s
                 IN saveRawDataFrom(s1, page.next, src, soff, p, offset)
            ELSE saveRawDataFrom(s, page.next, src, soff, p, size)

\* saveRawData(src, p, size) with size = Len(src)
saveRawData(s, src, p) ==
    saveRawDataFrom(s, s.freeIndex[Big], src, 0, p, Len(src))

RECURSIVE findFreePageFrom(_, _, _, _, _, _)
findFreePageFrom(s, c, i, p, size, atstart) ==
    IF i = -1 THEN -1
    ELSE LET page == s.pg[c][i]
         IN IF page.start # 0 /\
               ((atstart /\ page.start = p) \/
                (~atstart /\ p >= page.start /\ p + size <= page.start + page.size))
            THEN i
            ELSE findFreePageFrom(s, c, page.next, p, size, atstart)

findFreePage(s, c, p, size, atstart) ==
    findFreePageFrom(s, c, s.freeIndex[c], p, size, atstart)

\* one round of the selection loop of pullRawData, at slot i: its first
\* part, the overlap test and the empty page
pullVisit(s, i, pageindex, pagefindstate, p) ==
    LET page == s.pg[Big][i]
        newpageend == p + bigSize
        pageend == page.start + bigSize
    IN IF page.start # 0
       THEN IF (p >= page.start /\ p < pageend) \/
               (newpageend >= page.start /\ newpageend <= pageend)
            THEN [s |-> [syncBigPage(s, i) EXCEPT !.pg[Big][i].start = 0],
                  pageindex |-> i, state |-> STATE_GOTPARTIAL]
            ELSE [s |-> s, pageindex |-> pageindex, state |-> pagefindstate]
       ELSE IF pagefindstate # STATE_GOTPARTIAL
            THEN [s |-> s, pageindex |-> i, state |-> STATE_GOTEMPTY]
            ELSE [s |-> s, pageindex |-> pageindex, state |-> pagefindstate]

\* its second part, the clean and the dirty candidates; a is what the first
\* part left
pullPrefer(a, i) ==
    IF a.state > STATE_GOTCLEAN
    THEN IF ~a.s.pg[Big][i].dirty
         THEN [a EXCEPT !.pageindex = i, !.state = STATE_GOTCLEAN]
         ELSE LET s2 == [a.s EXCEPT !.pg[Big][i].cleanSkips = @ + 1]
              IN IF s2.pg[Big][i].cleanSkips >= PAGE_MAX_CLEAN_SKIPS
                 THEN [s |-> s2, pageindex |-> i, state |-> STATE_GOTCLEAN]
                 ELSE IF a.state # STATE_GOTDIRTY /\ i = s2.nextPageToSwap
                 THEN [s |-> s2, pageindex |-> i, state |-> STATE_GOTDIRTY]
                 ELSE [a EXCEPT !.s = s2]
    ELSE a

\* the selection loop of pullRawData, from slot i on
RECURSIVE pullScan(_, _, _, _, _)
pullScanOn(b, i, p) == pullScan(b.s, i, b.pageindex, b.state, p)

pullScan(s, i, pageindex, pagefindstate, p) ==
    IF i = -1 THEN [s |-> s, pageindex |-> pageindex, state |-> pagefindstate]
    ELSE pullScanOn(pullPrefer(pullVisit(s, i, pageindex, pagefindstate, p), i),
                    s.pg[Big][i].next, p)

\* a selection that never takes the fitting page as it is
pullSelectScanning(s, p, size, forcestart) ==
    pullScan(s, s.freeIndex[Big], -1, STATE_GOTNONE, p)

\* the page found or chosen for [p, p+size), before any swap
pullSelect(s, p, size, forcestart) ==
    LET full == findFreePage(s, Big, p, size, forcestart)
    IN IF full # -1
       THEN [s |-> s, pageindex |-> full, state |-> STATE_GOTFULL]
       ELSE pullScan(s, s.freeIndex[Big], -1, STATE_GOTNONE, p)

\* "Load in page": a is the state with the chosen page synchronized
pullLoad(a, state, idx, p) ==
    LET nps == IF state = STATE_GOTDIRTY
               THEN IF a.pg[Big][idx].next = -1
                    THEN a.freeIndex[Big]
                    ELSE a.pg[Big][idx].next
               ELSE a.freeIndex[Big]
        b == [a EXCEPT !.nextPageToSwap = nps, !.pg[Big][idx].start = p]
        rdsize == Min(poolSize - p, bigSize)
    IN PoolWrite(b, Big, idx, 0, doRead(b, p, rdsize))

\* the end of pullRawData: the dirty mark and the returned slot
pullMark(s1, idx, p, readonly) ==
    LET s2 == IF ~readonly THEN [s1 EXCEPT !.pg[Big][idx].dirty = TRUE] ELSE s1
    IN [s |-> AssertThat(s2, p >= s2.pg[Big][idx].start, "pullstart"), idx |-> idx]

\* "do we need to swap a page?": sel is the selection made
pullSwap(sel, p, readonly) ==
    LET idx == sel.pageindex
    IN IF idx = -1
       THEN [s |-> AssertThat(sel.s, FALSE, "pageindex"), idx |-> 0]
       ELSE pullMark(IF sel.state # STATE_GOTFULL
                     THEN pullLoad(IF sel.s.pg[Big][idx].start # 0
                                   THEN syncBigPage(sel.s, idx) ELSE sel.s,
                                   sel.state, idx, p)
                     ELSE sel.s,
                     idx, p, readonly)

\* pullRawData: the state afterwards and the slot idx whose pool holds p at
\* offset p - start
pullRawData(s, p, size, readonly, forcestart) ==
    pullSwap(pullSelect(AssertThat(s, p # 0 /\ p < poolSize, "pullRawData"),
                        p, size, forcestart),
             p, readonly)

\* memcpy into the pulled page r
pushCopy(r, p, d) == PoolWrite(r.s, Big, r.idx, p - r.s.pg[Big][r.idx].start, d)

pushRawData(s, p, d) == pushCopy(pullRawData(s, p, Len(d), FALSE, FALSE), p, d)

(* ------------------------------ read, write --------------------------- *)
NextClassHead(s, c) == IF c < Big THEN s.lockedIndex[c + 1] ELSE -1

\* the cells behind the pointer into the pulled page r
readPulled(r, p, size) ==
    [s |-> r.s, data |-> PoolRead(r.s, Big, r.idx, p - r.s.pg[Big][r.idx].start, size)]

\* read(p, size): the state afterwards and the size cells behind the
\* returned pointer
RECURSIVE readFrom(_, _, _, _, _)
readFrom(s, c, i, p, size) ==
    IF c > Big THEN readPulled(pullRawData(s, p, size, TRUE, FALSE), p, size)
    ELSE IF i = -1 THEN readFrom(s, c + 1, NextClassHead(s, c), p, size)
    ELSE LET page == s.pg[c][i]
             beginoverlaps == p >= page.start /\ p < page.start + page.size
             endoverlaps == p < page.start /\ p + size > page.start
         IN IF beginoverlaps /\ (p - page.start) + size <= page.size
            THEN [s |-> s, data |-> PoolRead(s, c, i, p - page.start, size)]
            ELSE IF beginoverlaps \/ endoverlaps
            THEN readFrom(pushRawData(s, page.start, PoolRead(s, c, i, 0, page.size)),
                          c, page.next, p, size)
            ELSE readFrom(s, c, page.next, p, size)

read(s, p, size) == readFrom(s, Small, s.lockedIndex[Small], p, size)

RECURSIVE writeFrom(_, _, _, _, _)
writeFrom(s, c, i, p, d) ==
    IF c > Big THEN pushRawData(s, p, d)
    ELSE IF i = -1 THEN writeFrom(s, c + 1, NextClassHead(s, c), p, d)
    ELSE LET page == s.pg[c][i]
             size == Len(d)
             beginoverlaps == p >= page.start /\ p < page.start + page.size
             endoverlaps == p < page.start /\ p + size > page.start
             s1 == IF ~page.dirty /\ (beginoverlaps \/ endoverlaps)
                   THEN [s EXCEPT !.pg[c][i].dirty = TRUE] ELSE s
         IN IF beginoverlaps
            THEN LET offset == p - page.start
                 IN IF offset + size <= page.size
                    THEN PoolWrite(s1, c, i, offset, d)
                    ELSE writeFrom(PoolWrite(s1, c, i, offset,
                                             SubSeq(d, 1, page.size - offset)),
                                   c, page.next, p, d)
            ELSE IF endoverlaps
            THEN writeFrom(PoolWrite(s1, c, i, 0, Suffix(d, page.start - p + 1)),
                           c, page.next, p, d)
            ELSE writeFrom(s1, c, page.next, p, d)

write(s, p, d) == writeFrom(s, Small, s.lockedIndex[Small], p, d)

RECURSIVE flushFrom(_, _)
flushFrom(s, i) ==
    IF i = -1 THEN s
    ELSE flushFrom(IF s.pg[Big][i].start # 0 THEN syncBigPage(s, i) ELSE s,
                   s.pg[Big][i].next)

flush(s) == flushFrom(s, s.freeIndex[Big])

RECURSIVE clearPagesFrom(_, _)
clearPagesFrom(s, i) ==
    IF i = -1 THEN s
    ELSE clearPagesFrom(IF s.pg[Big][i].start # 0
                        THEN [syncBigPage(s, i) EXCEPT !.pg[Big][i].start = 0]
                        ELSE s,
                        s.pg[Big][i].next)

clearPages(s) == clearPagesFrom(s, s.freeIndex[Big])

(* ---------------------------- page chains ----------------------------- *)
RECURSIVE findUnusedLockedPageFrom(_, _, _)
findUnusedLockedPageFrom(s, c, i) ==
    IF i = -1 THEN -1
    ELSE IF s.pg[c][i].locks = 0 THEN i
    ELSE findUnusedLockedPageFrom(s, c, s.pg[c][i].next)

findUnusedLockedPage(s, c) == findUnusedLockedPageFrom(s, c, s.lockedIndex[c])

syncLockedPage(s, c, i) ==
    LET page == s.pg[c][i]
        s0 == AssertThat(s, page.start # 0, "syncLockedPage")
    IN IF page.dirty
       THEN saveRawData(s0, PoolRead(s0, c, i, 0, page.size), page.start)
       ELSE s0

\* the slot whose next is index, walking from slot from
RECURSIVE prevInChain(_, _, _, _)
prevInChain(s, c, from, index) ==
    IF s.pg[c][from].next = index THEN from
    ELSE prevInChain(s, c, s.pg[c][from].next, index)

\* the big page of lockPage: q is what pullRawData left
lockPulled(q, ptr, size) ==
    LET found == findFreePage(q.s, Big, ptr, size, TRUE)
        index == IF found = -1 THEN q.idx ELSE found
    IN [s |-> IF size < bigSize THEN syncBigPage(q.s, index) ELSE q.s, index |-> index]

\* a lockPage that links the slot into the locked chain and leaves it in the
\* free chain
lockChainLinked(r, c) ==
    IF r.s.fault # "" THEN [s |-> r.s, index |-> 0]
    ELSE [s |-> [r.s EXCEPT !.pg[c][r.index].next = r.s.lockedIndex[c],
                            !.lockedIndex[c] = r.index],
          index |-> r.index]

\* a lockPage that leaves nextPageToSwap on the page it locks
lockChainSwapKept(r, c) ==
    LET index == r.index
        s1 == IF index = r.s.freeIndex[c]
              THEN [r.s EXCEPT !.freeIndex[c] = r.s.pg[c][index].next]
              ELSE [r.s EXCEPT !.pg[c][prevInChain(r.s, c, r.s.freeIndex[c], index)].next =
                                  r.s.pg[c][index].next]
    IN IF r.s.fault # "" THEN [s |-> r.s, index |-> 0]
       ELSE [s |-> [s1 EXCEPT !.pg[c][index].next = s1.lockedIndex[c],
                              !.lockedIndex[c] = index],
             index |-> index]

\* the move of slot r.index from the free chain to the locked chain
lockChain(r, c) ==
    LET index == r.index
        s1 == IF index = r.s.freeIndex[c]
              THEN [r.s EXCEPT !.freeIndex[c] = r.s.pg[c][index].next]
              ELSE [r.s EXCEPT !.pg[c][prevInChain(r.s, c, r.s.freeIndex[c], index)].next =
                                  r.s.pg[c][index].next]
        s2 == IF c = Big /\ s1.nextPageToSwap = index
              THEN [s1 EXCEPT !.nextPageToSwap = s1.freeIndex[c]] ELSE s1
    IN IF r.s.fault # "" THEN [s |-> r.s, index |-> 0]
       ELSE [s |-> [s2 EXCEPT !.pg[c][index].next = s2.lockedIndex[c],
                              !.lockedIndex[c] = index],
             index |-> index]

\* lockPage: the state afterwards and the slot moved to the locked chain
lockPage(s, c, ptr, size) ==
    lockChain(IF c = Big
              THEN lockPulled(pullRawData(s, ptr, size, TRUE, TRUE), ptr, size)
              ELSE [s |-> s, index |-> s.freeIndex[c]],
              c)

\* the move of slot index from the locked chain to the free chain; s1 is
\* the state with the page synchronized
freeUnchain(s1, c, index) ==
    LET ret == s1.pg[c][index].next
        s2 == IF index = s1.lockedIndex[c]
              THEN [s1 EXCEPT !.lockedIndex[c] = ret]
              ELSE [s1 EXCEPT !.pg[c][prevInChain(s1, c, s1.lockedIndex[c], index)].next = ret]
        s3 == [s2 EXCEPT !.pg[c][index].next = s2.freeIndex[c], !.freeIndex[c] = index]
        s4 == IF c = Big /\ s3.nextPageToSwap = -1
              THEN [s3 EXCEPT !.nextPageToSwap = s3.freeIndex[c]] ELSE s3
    IN [s |-> [s4 EXCEPT !.pg[c][index].locks = 0], ret |-> ret]

\* freeLockedPage: the state afterwards and the slot that followed index in
\* the locked chain
freeLockedPage(s, c, index) ==
    freeUnchain(IF c # Big THEN syncLockedPage(s, c, index)
                ELSE IF s.pg[c][index].size < PSize(c)
                THEN [syncLockedPage(s, c, index) EXCEPT !.pg[c][index].start = 0,
                                                         !.pg[c][index].size = PSize(c)]
                ELSE s,
                c, index)

RECURSIVE findLockedPageFrom(_, _, _, _)
findLockedPageFrom(s, c, i, p) ==
    IF i = -1 THEN -1
    ELSE IF p >= s.pg[c][i].start /\ p - s.pg[c][i].start < s.pg[c][i].size THEN i
    ELSE findLockedPageFrom(s, c, s.pg[c][i].next, p)

findLockedPageIn(s, c, p) == findLockedPageFrom(s, c, s.lockedIndex[c], p)

\* findLockedPage(p): <<class, slot>> of the page, or <<0, -1>>
findLockedPage(s, p) ==
    IF findLockedPageIn(s, Small, p) # -1 THEN <<Small, findLockedPageIn(s, Small, p)>>
    ELSE IF findLockedPageIn(s, Medium, p) # -1 THEN <<Medium, findLockedPageIn(s, Medium, p)>>
    ELSE IF findLockedPageIn(s, Big, p) # -1 THEN <<Big, findLockedPageIn(s, Big, p)>>
    ELSE <<0, -1>>

\* a releaseLock that drops every lock of the buffer at once
releaseLockAll(s, ptr) ==
    LET page == findLockedPage(s, ptr)
        c == page[1]
        i == page[2]
    IN IF i = -1 \/ s.pg[c][i].locks = 0
       THEN AssertThat(s, FALSE, "release")
       ELSE LET s1 == [s EXCEPT !.pg[c][i].locks = 0]
                index == findLockedPageIn(s1, Big, ptr)
            IN IF s1.pg[c][i].locks = 0 /\ index # -1
               THEN freeLockedPage(s1, Big, index).s
               ELSE s1

releaseLock(s, ptr) ==
    LET page == findLockedPage(s, ptr)
        c == page[1]
        i == page[2]
    IN IF i = -1 \/ s.pg[c][i].locks = 0
       THEN AssertThat(s, FALSE, "release")
       ELSE LET s1 == [s EXCEPT !.pg[c][i].locks = @ - 1]
                index == findLockedPageIn(s1, Big, ptr)
            IN IF s1.pg[c][i].locks = 0 /\ index # -1
               THEN freeLockedPage(s1, Big, index).s
               ELSE s1

(* ---------------------------- makeDataLock ---------------------------- *)
\* the first loop of makeDataLock (the sweep of the locked chains), from slot
\* i of class c on; L holds the function's locals
RECURSIVE dataLockSweep(_, _, _, _, _)
\* the sweep after freeLockedPage returned r
dataLockSweepOn(r, L, c, ptr) == dataLockSweep(r.s, L, c, r.ret, ptr)

\* the sweep at a page that begins at ptr, once it was shrunk where needed
dataLockFound(s1, L2, c, i, ptr) ==
    IF s1.pg[c][i].size = L2.size
    THEN [s |-> s1, L |-> [L2 EXCEPT !.done = TRUE]]
    ELSE dataLockSweep(s1, L2, c, s1.pg[c][i].next, ptr)

\* a sweep that frees every buffer the request overlaps, held or not
dataLockSweepFreeing(s, L, c, i, ptr) ==
    IF c > Big THEN [s |-> s, L |-> L]
    ELSE IF i = -1 THEN dataLockSweep(s, L, c + 1, NextClassHead(s, c), ptr)
    ELSE LET page == s.pg[c][i]
         IN IF page.start = ptr
            THEN IF L.pinfo # c /\ page.locks = 0
                 THEN dataLockSweepOn(freeLockedPage(s, c, i), L, c, ptr)
                 ELSE LET L1 == IF L.pinfo # c
                                THEN [L EXCEPT !.size = IF PSize(c) < PSize(L.pinfo)
                                                        THEN Min(L.size, PSize(c)) ELSE @,
                                               !.pinfo = c]
                                ELSE L
                          shrink == L.pinfo = c /\ page.size > L.size
                      IN dataLockFound(
                            IF shrink
                            THEN [saveRawData(
                                    AssertThat(s, page.locks = 0, "shrinklocked"),
                                    PoolRead(s, c, i, L.size, page.size - L.size),
                                    page.start + L.size)
                                  EXCEPT !.pg[c][i].size = L.size]
                            ELSE s,
                            [L1 EXCEPT !.pageindex = i], c, i, ptr)
            ELSE LET endoverlaps == ptr < page.start /\ ptr + L.size > page.start
                     beginoverlaps == ptr > page.start /\ ptr < page.start + page.size
                 IN IF page.locks # 0 /\ ~(endoverlaps \/ beginoverlaps)
                    THEN dataLockSweep(s,
                            IF endoverlaps
                            THEN [L EXCEPT !.size = page.start - ptr, !.shrunk = TRUE]
                            ELSE IF beginoverlaps
                            THEN [L EXCEPT !.fixbeginningoverlap = TRUE]
                            ELSE L,
                            c, page.next, ptr)
                    ELSE IF endoverlaps \/ beginoverlaps
                    THEN dataLockSweepOn(freeLockedPage(s, c, i), L, c, ptr)
                    ELSE dataLockSweep(s,
                            IF L.oldlockindex = -1
                            THEN IF L.pinfo = c THEN [L EXCEPT !.oldlockindex = i]
                                 ELSE IF L.secoldlockindex = -1 /\ PSize(L.pinfo) < PSize(c)
                                 THEN [L EXCEPT !.secoldlockindex = i, !.secpinfo = c]
                                 ELSE L
                            ELSE L,
                            c, page.next, ptr)

dataLockSweep(s, L, c, i, ptr) ==
    IF c > Big THEN [s |-> s, L |-> L]
    ELSE IF i = -1 THEN dataLockSweep(s, L, c + 1, NextClassHead(s, c), ptr)
    ELSE LET page == s.pg[c][i]
         IN IF page.start = ptr
            THEN IF L.pinfo # c /\ page.locks = 0
                 THEN dataLockSweepOn(freeLockedPage(s, c, i), L, c, ptr)
                 ELSE LET L1 == IF L.pinfo # c
                                THEN [L EXCEPT !.size = IF PSize(c) < PSize(L.pinfo)
                                                        THEN Min(L.size, PSize(c)) ELSE @,
                                               !.pinfo = c]
                                ELSE L
                          shrink == L.pinfo = c /\ page.size > L.size
                      IN dataLockFound(
                            IF shrink
                            THEN [saveRawData(
                                    AssertThat(s, page.locks = 0, "shrinklocked"),
                                    PoolRead(s, c, i, L.size, page.size - L.size),
                                    page.start + L.size)
                                  EXCEPT !.pg[c][i].size = L.size]
                            ELSE s,
                            [L1 EXCEPT !.pageindex = i], c, i, ptr)
            ELSE LET endoverlaps == ptr < page.start /\ ptr + L.size > page.start
                     beginoverlaps == ptr > page.start /\ ptr < page.start + page.size
                 IN IF page.locks # 0
                    THEN dataLockSweep(s,
                            IF endoverlaps
                            THEN [L EXCEPT !.size = page.start - ptr, !.shrunk = TRUE]
                            ELSE IF beginoverlaps
                            THEN [L EXCEPT !.fixbeginningoverlap = TRUE]
                            ELSE L,
                            c, page.next, ptr)
                    ELSE IF endoverlaps \/ beginoverlaps
                    THEN dataLockSweepOn(freeLockedPage(s, c, i), L, c, ptr)
                    ELSE dataLockSweep(s,
                            IF L.oldlockindex = -1
                            THEN IF L.pinfo = c THEN [L EXCEPT !.oldlockindex = i]
                                 ELSE IF L.secoldlockindex = -1 /\ PSize(L.pinfo) < PSize(c)
                                 THEN [L EXCEPT !.secoldlockindex = i, !.secpinfo = c]
                                 ELSE L
                            ELSE L,
                            c, page.next, ptr)

\* "does it fit in a smaller page now?": the class and slot choice after the
\* request was shrunk
dataLockMigrate(s, L) ==
    IF L.shrunk /\ L.size <= mediumSize /\ L.pinfo = Big /\
       (L.pageindex = -1 \/ s.pg[L.pinfo][L.pageindex].locks = 0)
    THEN LET oldpinfo == L.pinfo
             a == IF L.size <= smallSize
                  THEN IF s.freeIndex[Small] # -1 THEN [L EXCEPT !.pinfo = Small]
                       ELSE IF findUnusedLockedPage(s, Small) # -1
                       THEN [L EXCEPT !.pinfo = Small,
                                      !.oldlockindex = findUnusedLockedPage(s, Small)]
                       ELSE L
                  ELSE L
             b == IF oldpinfo = a.pinfo
                  THEN IF s.freeIndex[Medium] # -1 THEN [a EXCEPT !.pinfo = Medium]
                       ELSE IF findUnusedLockedPage(s, Medium) # -1
                       THEN [a EXCEPT !.pinfo = Medium,
                                      !.oldlockindex = findUnusedLockedPage(s, Medium)]
                       ELSE a
                  ELSE a
         IN IF b.pinfo # oldpinfo /\ b.pageindex # -1
            THEN [s |-> freeLockedPage(s, oldpinfo, b.pageindex).s,
                  L |-> [b EXCEPT !.pageindex = -1]]
            ELSE [s |-> s, L |-> b]
    ELSE [s |-> s, L |-> L]

\* the fix-beginning loop: copy the overlap out of each locked page that ptr
\* falls into and shrink that page
RECURSIVE dataLockFix(_, _, _, _, _, _)
dataLockFix(s, L, c, i, ptr, fixed) ==
    IF c > Big THEN [s |-> s, L |-> L]
    ELSE IF i = -1 THEN dataLockFix(s, L, c + 1, NextClassHead(s, c), ptr, fixed)
    ELSE LET page == s.pg[c][i]
         IN IF (i # L.pageindex \/ c # L.pinfo) /\ ptr > page.start /\
               ptr < page.start + page.size
            THEN LET offsetold == ptr - page.start
                     copysize == Min(page.size - offsetold, L.size)
                     s0 == AssertThat(s, ~fixed, "fixed")
                     s1 == PoolWrite(s0, L.pinfo, L.pageindex, 0,
                                     PoolRead(s0, c, i, offsetold, copysize))
                     s2 == [s1 EXCEPT !.pg[c][i].size = offsetold]
                 IN dataLockFix(s2, [L EXCEPT !.copyoffset = Max(@, copysize)],
                                c, page.next, ptr, TRUE)
            ELSE dataLockFix(s, L, c, page.next, ptr, fixed)

\* a widening that goes to the big class before the medium one
dataLockWidenBig(s, L) ==
    IF s.freeIndex[L.pinfo] = -1 /\ L.oldlockindex = -1
    THEN IF PSize(L.pinfo) < bigSize /\ s.freeIndex[Big] # -1
         THEN [L EXCEPT !.pinfo = Big]
         ELSE IF PSize(L.pinfo) < mediumSize /\ s.freeIndex[Medium] # -1
         THEN [L EXCEPT !.pinfo = Medium]
         ELSE L
    ELSE L

\* "space left in bigger page?": the class of the new lock
dataLockWiden(s, L) ==
    IF s.freeIndex[L.pinfo] = -1 /\ L.oldlockindex = -1
    THEN IF PSize(L.pinfo) < mediumSize /\ s.freeIndex[Medium] # -1
         THEN [L EXCEPT !.pinfo = Medium]
         ELSE IF PSize(L.pinfo) < bigSize /\ s.freeIndex[Big] # -1
         THEN [L EXCEPT !.pinfo = Big]
         ELSE L
    ELSE L

\* the slot lockPage returned in r becomes the lock's page
dataLockLocked(r, a) ==
    [s |-> r.s,
     L |-> [a EXCEPT !.pageindex = r.index,
                     !.copyoffset = IF a.pinfo = Big THEN a.size ELSE 0]]

\* the slot of the new lock: a free page, or an unused locked page;
\* L.pageindex stays -1 when no slot is left
dataLockTake(s, a, ptr) ==
    IF s.freeIndex[a.pinfo] # -1
    THEN dataLockLocked(lockPage(s, a.pinfo, ptr, a.size), a)
    ELSE LET b == IF a.oldlockindex = -1 /\ a.secoldlockindex # -1
                  THEN [a EXCEPT !.pinfo = a.secpinfo,
                                 !.oldlockindex = a.secoldlockindex]
                  ELSE a
         IN IF b.oldlockindex # -1
            THEN [s |-> [syncLockedPage(s, b.pinfo, b.oldlockindex)
                           EXCEPT !.pg[b.pinfo][b.oldlockindex].dirty = FALSE],
                  L |-> [b EXCEPT !.pageindex = b.oldlockindex]]
            ELSE [s |-> ReturnsZero(s, "nolockspace"), L |-> b]

\* "copy (rest of) data" into the new lock's page and its start
dataLockCopy(f, ptr) ==
    LET M == f.L
        rest == M.size - M.copyoffset
        s1 == IF M.copyoffset < M.size
              THEN PoolWrite(f.s, M.pinfo, M.pageindex, M.copyoffset,
                      copyRawData(f.s,
                                  PoolRead(f.s, M.pinfo, M.pageindex, M.copyoffset, rest),
                                  ptr + M.copyoffset, rest))
              ELSE f.s
    IN [s |-> [s1 EXCEPT !.pg[M.pinfo][M.pageindex].start = ptr], L |-> M]

\* the new lock's page filled: got is the slot taken
dataLockFill(got, ptr) ==
    IF got.L.pageindex = -1 \/ got.s.fault # "" THEN got
    ELSE dataLockCopy(IF got.L.fixbeginningoverlap
                      THEN dataLockFix(got.s, got.L, Small, got.s.lockedIndex[Small],
                                       ptr, FALSE)
                      ELSE got,
                      ptr)

\* "make new or reuse old lock?", the branch that makes a new lock
dataLockNew(s, L, ptr) == dataLockFill(dataLockTake(s, dataLockWiden(s, L), ptr), ptr)

\* the branch that reuses the lock found at ptr
dataLockReuse(s, L, ptr) ==
    LET page == s.pg[L.pinfo][L.pageindex]
        offset == page.size
    IN IF L.size > page.size
       THEN PoolWrite(s, L.pinfo, L.pageindex, offset,
               copyRawData(s, PoolRead(s, L.pinfo, L.pageindex, offset, L.size - offset),
                           ptr + offset, L.size - offset))
       ELSE s

DataLockClass(size) ==
    IF size <= smallSize THEN Small ELSE IF size <= mediumSize THEN Medium ELSE Big

\* the assertions after the sweep sw
dataLockChecked(sw) ==
    [s |-> AssertThat(
             AssertThat(sw.s,
                        sw.L.pageindex = -1 \/
                          sw.L.size >= sw.s.pg[sw.L.pinfo][sw.L.pageindex].size,
                        "sizefound"),
             sw.L.pageindex = -1 \/ ~sw.L.fixbeginningoverlap, "fixfound"),
     L |-> sw.L]

\* the new or the reused lock, mg being the state and locals after migration
dataLockPlace(mg, ptr) ==
    IF mg.L.pageindex = -1
    THEN dataLockNew(mg.s, mg.L, ptr)
    ELSE [s |-> dataLockReuse(mg.s, mg.L, ptr), L |-> mg.L]

\* the end of makeDataLock: dirty, locks and size of the lock's page
\* a finish that records the big page size as the size of every lock
dataLockFinishBig(r, ro) ==
    LET c == r.L.pinfo
        i == r.L.pageindex
    IN IF i = -1 \/ r.s.fault # ""
       THEN [s |-> r.s, ok |-> FALSE, c |-> 0, i |-> -1, size |-> 0]
       ELSE [s |-> [r.s EXCEPT !.pg[c][i].dirty = @ \/ ~ro,
                               !.pg[c][i].locks = @ + 1,
                               !.pg[c][i].size = bigSize],
             ok |-> TRUE, c |-> c, i |-> i, size |-> r.L.size]

dataLockFinish(r, ro) ==
    LET c == r.L.pinfo
        i == r.L.pageindex
    IN IF i = -1 \/ r.s.fault # ""
       THEN [s |-> r.s, ok |-> FALSE, c |-> 0, i |-> -1, size |-> 0]
       ELSE [s |-> AssertThat(
                     [r.s EXCEPT !.pg[c][i].dirty = @ \/ ~ro,
                                 !.pg[c][i].locks = @ + 1,
                                 !.pg[c][i].size = r.L.size],
                     r.L.size <= PSize(c), "sizeclass"),
             ok |-> TRUE, c |-> c, i |-> i, size |-> r.L.size]

dataLockMigrated(ck) == dataLockMigrate(ck.s, ck.L)

\* makeDataLock(ptr, size, ro): the state afterwards and the lock made: ok,
\* the class and slot of its buffer and its size
makeDataLock(s, ptr, size, ro) ==
    LET L0 == [size |-> size, pinfo |-> DataLockClass(size), secpinfo |-> 0,
               pageindex |-> -1, oldlockindex |-> -1, secoldlockindex |-> -1,
               fixbeginningoverlap |-> FALSE, done |-> FALSE, shrunk |-> FALSE,
               copyoffset |-> 0]
    IN dataLockFinish(
          dataLockPlace(
             dataLockMigrated(
                dataLockChecked(dataLockSweep(s, L0, Small, s.lockedIndex[Small], ptr))),
             ptr),
          ro)

(* --------------------------- makeFittingLock -------------------------- *)
\* the first loop of makeFittingLock, from slot i of class c on
RECURSIVE fittingLockSweep(_, _, _, _, _)
\* the sweep after freeLockedPage returned r
fittingLockSweepOn(r, L, c, ptr) == fittingLockSweep(r.s, L, c, r.ret, ptr)

\* a sweep that, where the request runs into a locked buffer, cuts the
\* buffer's beginning off and leaves the request whole
fittingLockSweepCutting(s, L, c, i, ptr) ==
    IF c > Big THEN [s |-> s, L |-> L]
    ELSE IF i = -1 THEN fittingLockSweep(s, L, c + 1, NextClassHead(s, c), ptr)
    ELSE IF ptr >= s.pg[c][i].start /\ ptr < s.pg[c][i].start + s.pg[c][i].size
    THEN [s |-> s, L |-> [L EXCEPT !.plistindex = c, !.pageindex = i]]
    ELSE IF ptr < s.pg[c][i].start /\ ptr + L.size > s.pg[c][i].start
    THEN IF s.pg[c][i].locks = 0
         THEN fittingLockSweepOn(freeLockedPage(s, c, i), L, c, ptr)
         ELSE fittingLockSweep(
                 [s EXCEPT !.pg[c][i].start = ptr + L.size,
                           !.pg[c][i].size =
                               Max(0, s.pg[c][i].start + @ - (ptr + L.size))],
                 L, c, s.pg[c][i].next, ptr)
    ELSE fittingLockSweep(s,
                          IF s.pg[c][i].locks = 0 /\ L.unusedlist[c] = -1
                          THEN [L EXCEPT !.unusedlist[c] = i] ELSE L,
                          c, s.pg[c][i].next, ptr)

fittingLockSweep(s, L, c, i, ptr) ==
    IF c > Big THEN [s |-> s, L |-> L]
    ELSE IF i = -1 THEN fittingLockSweep(s, L, c + 1, NextClassHead(s, c), ptr)
    ELSE LET page == s.pg[c][i]
         IN IF ptr >= page.start /\ ptr < page.start + page.size
            THEN [s |-> s, L |-> [L EXCEPT !.plistindex = c, !.pageindex = i]]
            ELSE LET endoverlaps == ptr < page.start /\ ptr + L.size > page.start
                 IN IF endoverlaps /\ page.locks = 0
                    THEN fittingLockSweepOn(freeLockedPage(s, c, i), L, c, ptr)
                    ELSE LET L1 == IF endoverlaps
                                   THEN [L EXCEPT !.size = page.start - ptr] ELSE L
                             L2 == IF page.locks = 0 /\ L1.unusedlist[c] = -1
                                   THEN [L1 EXCEPT !.unusedlist[c] = i] ELSE L1
                         IN fittingLockSweep(s, L2, c, page.next, ptr)

\* the class choice of makeFittingLock when no lock holds ptr
RECURSIVE fittingLockClass(_, _, _, _, _)
fittingLockClass(s, L, i, plistindex, secpli) ==
    IF i > Big THEN <<plistindex, secpli>>
    ELSE IF s.freeIndex[i] # -1 \/ L.unusedlist[i] # -1
    THEN IF L.size <= PSize(i)
         THEN fittingLockClass(s, L, i + 1, i, secpli)
         ELSE fittingLockClass(s, L, i + 1, plistindex, i)
    ELSE fittingLockClass(s, L, i + 1, plistindex, secpli)

\* the page of the new fitting lock filled and marked: r is the slot taken
fittingLockFill(r, c, sz, ptr, ro, syncpool) ==
    LET i == r.index
        s1 == IF syncpool
              THEN PoolWrite(r.s, c, i, 0,
                      copyRawData(r.s, PoolRead(r.s, c, i, 0, sz), ptr, sz))
              ELSE r.s
        s2 == [s1 EXCEPT !.pg[c][i].start = ptr,
                         !.pg[c][i].size = sz,
                         !.pg[c][i].locks = @ + 1,
                         !.pg[c][i].dirty = @ \/ ~ro]
    IN [s |-> s2, ok |-> s2.fault = "", c |-> c, i |-> i, offset |-> 0, size |-> sz]

\* a makeFittingLock that hands the size asked for back when it reuses the
\* buffer that holds ptr
fittingLockMakeUncut(sw, ptr, ro) ==
    LET L == sw.L
    IN IF L.pageindex = -1
       THEN LET ch == fittingLockClass(sw.s, L, Small, -1, -1)
                c == IF ch[1] = -1 /\ ch[2] # -1 THEN ch[2] ELSE ch[1]
                sz == IF ch[1] = -1 /\ ch[2] # -1 THEN PSize(ch[2]) ELSE L.size
            IN IF c = -1
               THEN [s |-> ReturnsZero(sw.s, "nolockspace"), ok |-> FALSE,
                     c |-> 0, i |-> -1, offset |-> 0, size |-> sz]
               ELSE IF sw.s.freeIndex[c] # -1
               THEN fittingLockFill(lockPage(sw.s, c, ptr, sz), c, sz, ptr, ro, c # Big)
               ELSE fittingLockFill(
                       [s |-> [syncLockedPage(sw.s, c, L.unusedlist[c])
                                 EXCEPT !.pg[c][L.unusedlist[c]].dirty = FALSE],
                        index |-> L.unusedlist[c]],
                       c, sz, ptr, ro, TRUE)
       ELSE LET c == L.plistindex
                i == L.pageindex
                offset == ptr - sw.s.pg[c][i].start
                sz == L.size
            IN [s |-> [sw.s EXCEPT !.pg[c][i].locks = @ + 1,
                                   !.pg[c][i].dirty = @ \/ ~ro],
                ok |-> TRUE, c |-> c, i |-> i, offset |-> offset, size |-> sz]

\* makeFittingLock after its sweep sw
fittingLockMake(sw, ptr, ro) ==
    LET L == sw.L
    IN IF L.pageindex = -1
       THEN LET ch == fittingLockClass(sw.s, L, Small, -1, -1)
                c == IF ch[1] = -1 /\ ch[2] # -1 THEN ch[2] ELSE ch[1]
                sz == IF ch[1] = -1 /\ ch[2] # -1 THEN PSize(ch[2]) ELSE L.size
            IN IF c = -1
               THEN [s |-> ReturnsZero(sw.s, "nolockspace"), ok |-> FALSE,
                     c |-> 0, i |-> -1, offset |-> 0, size |-> sz]
               ELSE IF sw.s.freeIndex[c] # -1
               THEN fittingLockFill(lockPage(sw.s, c, ptr, sz), c, sz, ptr, ro, c # Big)
               ELSE fittingLockFill(
                       [s |-> [syncLockedPage(sw.s, c, L.unusedlist[c])
                                 EXCEPT !.pg[c][L.unusedlist[c]].dirty = FALSE],
                        index |-> L.unusedlist[c]],
                       c, sz, ptr, ro, TRUE)
       ELSE LET c == L.plistindex
                i == L.pageindex
                offset == ptr - sw.s.pg[c][i].start
                sz == Min(L.size, sw.s.pg[c][i].size - offset)
            IN [s |-> [sw.s EXCEPT !.pg[c][i].locks = @ + 1,
                                   !.pg[c][i].dirty = @ \/ ~ro],
                ok |-> TRUE, c |-> c, i |-> i, offset |-> offset, size |-> sz]

\* makeFittingLock(ptr, size, ro): the state afterwards and the lock made: ok,
\* the class and slot of its buffer, the offset of the returned pointer in
\* it and the size handed back
makeFittingLock(s, ptr, size, ro) ==
    fittingLockMake(
       fittingLockSweep(s,
                        [size |-> Min(size, bigSize), plistindex |-> -1, pageindex |-> -1,
                         unusedlist |-> [c \in Classes |-> -1]],
                        Small, s.lockedIndex[Small], ptr),
       ptr, ro)

(* ------------------------- free-list allocator ------------------------ *)
\* a header in memory: next, size, then padding up to sizeof(UMemHeader)
EncodeHeader(h) == <<h.next, h.size>> \o [k \in 1..(HeaderSize - 2) |-> 0]
DecodeHeader(d) == [next |-> d[1], size |-> d[2]]

\* the header in the bytes that read returned in r
headerRead(r) == [s |-> r.s, h |-> DecodeHeader(r.data)]

\* getHeaderConst(p): the state afterwards and the header read
getHeaderConst(s, p) ==
    IF p = BASE_INDEX THEN [s |-> s, h |-> s.baseFreeList]
    ELSE headerRead(read(s, p, HeaderSize))

updateHeader(s, p, h) ==
    IF p = BASE_INDEX THEN [s EXCEPT !.baseFreeList = h]
    ELSE write(s, p, EncodeHeader(h))

\* the scan stops at node p, whose header r holds
freeRawScanStop(r, p) == [s |-> r.s, p |-> p, h |-> r.h]

\* an insertion scan that takes the node at freePointer, wherever the freed
\* block lies
freeRawScanFirst(s, p, hdrptr, fuel) == freeRawScanStop(getHeaderConst(s, p), p)

\* the insertion scan of freeRaw: the node p after which hdrptr belongs and
\* its header
RECURSIVE freeRawScan(_, _, _, _)
\* one step of the scan: r holds the header of p
freeRawScanAt(r, p, hdrptr, fuel) ==
    IF fuel = 0 THEN [s |-> Fault(r.s, "loop"), p |-> p, h |-> r.h]
    ELSE IF hdrptr > p /\ hdrptr < r.h.next THEN freeRawScanStop(r, p)
    ELSE IF p >= r.h.next /\ (hdrptr > p \/ hdrptr < r.h.next)
    THEN freeRawScanStop(r, p)
    ELSE freeRawScan(r.s, r.h.next, hdrptr, fuel - 1)

freeRawScan(s, p, hdrptr, fuel) == freeRawScanAt(getHeaderConst(s, p), p, hdrptr, fuel)

\* the end of freeRaw: the header of p written, freePointer moved
freeRawDone(s1, p, stath) ==
    [AssertThat(updateHeader(s1, p, stath), stath.next # 0, "freenext")
       EXCEPT !.freePointer = p]

\* the header of the freed block written, then "merge with lower block?"
freeRawLower(s, p, stath, statheader, hdrptr) ==
    freeRawDone(updateHeader(s, hdrptr, statheader), p,
                IF p + stath.size = hdrptr
                THEN [size |-> stath.size + statheader.size, next |-> statheader.next]
                ELSE [size |-> stath.size, next |-> hdrptr])

\* the upper block, whose header rn holds, joined to the freed one
freeRawJoinUpper(rn, sc, h, hdrptr) ==
    freeRawLower(rn.s, sc.p, sc.h,
                 [size |-> h.size + rn.h.size, next |-> rn.h.next], hdrptr)

\* "merge with upper block?": sc is the result of the scan, h the header of
\* the freed block
freeRawUpper(sc, h, hdrptr) ==
    IF hdrptr + h.size = sc.h.next
    THEN freeRawJoinUpper(getHeaderConst(sc.s, sc.h.next), sc, h, hdrptr)
    ELSE freeRawLower(sc.s, sc.p, sc.h, [size |-> h.size, next |-> sc.h.next], hdrptr)

\* freeRaw after it read the header of the freed block into r0
freeRawFind(r0, hdrptr) ==
    freeRawUpper(freeRawScan(r0.s, r0.s.freePointer, hdrptr, poolSize), r0.h, hdrptr)

freeRaw(s, ptr) ==
    IF ptr = 0 THEN s
    ELSE freeRawFind(getHeaderConst(s, ptr - HeaderSize), ptr - HeaderSize)

\* a getMem that returns the header of the new block, not freePointer
getMemDoneNew(s2, step) ==
    [s |-> [s2 EXCEPT !.poolFreePos = @ + step], r |-> s2.poolFreePos]

\* the new block freed into the list, poolFreePos moved by step
getMemDone(s2, step) ==
    [s |-> [s2 EXCEPT !.poolFreePos = @ + step], r |-> s2.freePointer]

\* a block of sz units taken from the pool tail, where it fits
getMemTake(s, sz, step) ==
    IF s.poolFreePos + sz * HeaderSize <= poolSize
    THEN getMemDone(freeRaw(write(s, s.poolFreePos,
                                  EncodeHeader([size |-> sz, next |-> 0])),
                            s.poolFreePos + HeaderSize),
                    step)
    ELSE [s |-> s, r |-> 0]

\* getMem that moves poolFreePos by the units of the block, not its bytes
getMemUnscaled(s, size) ==
    getMemTake(s, Max(size, MIN_ALLOC_SIZE), Max(size, MIN_ALLOC_SIZE))

\* getMem that gives the rest of the pool tail up when the request does not fit
getMemClosing(s, size) ==
    IF s.poolFreePos + Max(size, MIN_ALLOC_SIZE) * HeaderSize <= poolSize
    THEN getMemTake(s, Max(size, MIN_ALLOC_SIZE), Max(size, MIN_ALLOC_SIZE) * HeaderSize)
    ELSE [s |-> [s EXCEPT !.poolFreePos = poolSize], r |-> 0]

\* getMem that takes exactly the units asked for, however few
getMemExact(s, size) == getMemTake(s, size, size * HeaderSize)

\* getMem(size): the state afterwards and the address returned
getMem(s, size) ==
    getMemTake(s, Max(size, MIN_ALLOC_SIZE), Max(size, MIN_ALLOC_SIZE) * HeaderSize)

AllocQuantity(size) == (size + HeaderSize - 1) \div HeaderSize + 1

\* "exact size fit": p leaves the list, rp holds the header of prevp
allocRawUnlink(rp, prevp, p, next) ==
    [s |-> [updateHeader(rp.s, prevp, [rp.h EXCEPT !.next = next])
              EXCEPT !.freePointer = prevp],
     r |-> p + HeaderSize]

\* a split that gives the block one unit more than it cut off
allocRawTailWide(r2, prevp, p2, quantity) ==
    [s |-> [updateHeader(r2.s, p2, [r2.h EXCEPT !.size = quantity + 1])
              EXCEPT !.freePointer = prevp],
     r |-> p2 + HeaderSize]

\* the tail of a bigger block, whose header r2 holds, becomes the block
allocRawTailSized(r2, prevp, p2, quantity) ==
    [s |-> [updateHeader(r2.s, p2, [r2.h EXCEPT !.size = quantity])
              EXCEPT !.freePointer = prevp],
     r |-> p2 + HeaderSize]

allocRawTail(s1, prevp, p2, quantity) ==
    allocRawTailSized(getHeaderConst(s1, p2), prevp, p2, quantity)

\* the first-fit walk of allocRaw
RECURSIVE allocRawWalk(_, _, _, _, _)
\* the walk moves on from p, whose header r holds
allocRawNext(r, p, quantity, fuel) ==
    allocRawWalk(AssertThat(r.s, r.h.next # 0, "allocnext"),
                 p, r.h.next, quantity, fuel - 1)

\* the walk came round to freePointer and asked getMem, which returned g
allocRawGrown(g, quantity, fuel) ==
    IF g.r = 0 THEN [s |-> ReturnsZero(g.s, "oom"), r |-> 0]
    ELSE allocRawNext(getHeaderConst(g.s, g.r), g.r, quantity, fuel)

\* a walk that passes the blocks of exactly the size asked for
allocRawAtBigger(r, prevp, p, quantity, fuel) ==
    IF fuel = 0 THEN [s |-> Fault(r.s, "loop"), r |-> 0]
    ELSE IF r.h.size > quantity
    THEN allocRawTail(updateHeader(r.s, p, [r.h EXCEPT !.size = @ - quantity]),
                      prevp, p + (r.h.size - quantity) * HeaderSize, quantity)
    ELSE IF p = r.s.freePointer
    THEN allocRawGrown(getMem(r.s, quantity), quantity, fuel)
    ELSE allocRawNext(r, p, quantity, fuel)

\* one step of the walk: r holds the header of p
allocRawAt(r, prevp, p, quantity, fuel) ==
    IF fuel = 0 THEN [s |-> Fault(r.s, "loop"), r |-> 0]
    ELSE IF r.h.size >= quantity
    THEN IF r.h.size = quantity
         THEN allocRawUnlink(getHeaderConst(r.s, prevp), prevp, p, r.h.next)
         ELSE allocRawTail(updateHeader(r.s, p, [r.h EXCEPT !.size = @ - quantity]),
                           prevp, p + (r.h.size - quantity) * HeaderSize, quantity)
    ELSE IF p = r.s.freePointer
    THEN allocRawGrown(getMem(r.s, quantity), quantity, fuel)
    ELSE allocRawNext(r, p, quantity, fuel)

allocRawWalk(s, prevp, p, quantity, fuel) ==
    allocRawAt(getHeaderConst(s, p), prevp, p, quantity, fuel)

\* the walk starts behind prevp, whose header r0 holds
allocRawStart(r0, prevp, quantity) ==
    allocRawWalk(r0.s, prevp, r0.h.next, quantity, 2 * poolSize)

allocRawFrom(s0, quantity) ==
    allocRawStart(getHeaderConst(s0, s0.freePointer), s0.freePointer, quantity)

\* allocRaw(size): the state afterwards and the address returned
allocRaw(s, size) ==
    allocRawFrom(IF s.freePointer = 0
                 THEN [s EXCEPT !.baseFreeList = [next |-> BASE_INDEX, size |-> 0],
                                !.freePointer = BASE_INDEX]
                 ELSE s,
                 AllocQuantity(size))

(* ------------------------------- start -------------------------------- *)
StartPages ==
    [c \in Classes |->
        [i \in 0..(PCount(c) - 1) |->
            [start |-> 0, size |-> IF c = Big THEN bigSize ELSE 0, dirty |-> FALSE,
             locks |-> 0, cleanSkips |-> 0,
             next |-> IF i = PCount(c) - 1 THEN -1 ELSE i + 1]]]

Init ==
    /\ store = [a \in 0..(poolSize - 1) |-> 0]
    /\ mem = [c \in Classes |-> [x \in 0..(PCount(c) * PSize(c) - 1) |-> 0]]
    /\ pg = StartPages
    /\ freeIndex = [c \in Classes |-> 0]
    /\ lockedIndex = [c \in Classes |-> -1]
    /\ nextPageToSwap = 0
    /\ freePointer = 0
    /\ baseFreeList = [next |-> 0, size |-> 0]
    /\ poolFreePos = START_OFFSET + HeaderSize
    /\ fault = ""
    /\ asserts = {}
    /\ ops = 0
    /\ last = [op |-> "start"]
    /\ shadow = [a \in 0..(poolSize - 1) |-> 0]
    /\ wrote = {}
    /\ live = << >>
    /\ failed = {}
    /\ held = << >>

(* ---------------------------- public calls --------------------------- *)
\* a call that left defined behaviour stops the program: its effects are not
\* observed
Commit(s) ==
    IF s.fault # ""
    THEN /\ fault' = s.fault
         /\ asserts' = s.asserts
         /\ UNCHANGED <<store, mem, pg, freeIndex, lockedIndex, nextPageToSwap,
                        freePointer, baseFreeList, poolFreePos>>
    ELSE /\ store' = s.store
         /\ mem' = s.mem
         /\ pg' = s.pg
         /\ freeIndex' = s.freeIndex
         /\ lockedIndex' = s.lockedIndex
         /\ nextPageToSwap' = s.nextPageToSwap
         /\ freePointer' = s.freePointer
         /\ baseFreeList' = s.baseFreeList
         /\ poolFreePos' = s.poolFreePos
         /\ fault' = ""
         /\ asserts' = s.asserts

Running == fault = ""

\* the ranges SpecPage gives to the paging calls: every range of at most a
\* big page between PageLo and the end of the pool
Ranges == {r \in (PageLo..(poolSize - 1)) \X (1..bigSize) : r[1] + r[2] <= poolSize}
\* the n cells a caller writes, chosen by v
Data(v, n) == [k \in 1..n |-> ((v + k) % MaxVal) + 1]
Cells(f, p, n) == [k \in 1..n |-> f[p + k - 1]]
Stored(f, p, d) ==
    [a \in DOMAIN f |-> IF a >= p /\ a < p + Len(d) THEN d[a - p + 1] ELSE f[a]]
HeldCount == IF DOMAIN held = {} THEN 0
             ELSE LET RECURSIVE Sum(_)
                      Sum(S) == IF S = {} THEN 0
                                ELSE LET x == CHOOSE x \in S : TRUE
                                     IN held[x] + Sum(S \ {x})
                  IN Sum(DOMAIN held)
Hold(p) == IF p \in DOMAIN held THEN [held EXCEPT ![p] = @ + 1] ELSE held @@ (p :> 1)
Unhold(p) == IF held[p] = 1 THEN [a \in DOMAIN held \ {p} |-> held[a]]
             ELSE [held EXCEPT ![p] = @ - 1]

\* what the caller observes of a call: nothing when it left defined behaviour
Seen(s, rec) == IF s.fault # "" THEN [op |-> "fault"] ELSE rec

\* the ranges of W that share no cell with [p, p+n)
Untouched(W, p, n) == {r \in W : r[1] + r[2] <= p \/ p + n <= r[1]}

Read(p, n) ==
    /\ Running
    /\ \E r \in {read(State, p, n)} :
          /\ Commit(r.s)
          /\ last' = Seen(r.s, [op |-> "read", p |-> p, n |-> n, data |-> r.data,
                                expect |-> Cells(shadow, p, n)])
    /\ ops' = ops + 1
    /\ UNCHANGED <<shadow, wrote, live, failed, held>>

Write(p, n, v) ==
    /\ Running
    /\ \E s \in {write(State, p, Data(v, n))} :
          /\ Commit(s)
          /\ shadow' = IF s.fault = "" THEN Stored(shadow, p, Data(v, n)) ELSE shadow
          /\ wrote' = IF s.fault = "" THEN Untouched(wrote, p, n) \cup {<<p, n>>} ELSE wrote
          /\ last' = Seen(s, [op |-> "write", p |-> p, n |-> n])
    /\ ops' = ops + 1
    /\ UNCHANGED <<live, failed, held>>

MakeDataLock(p, n, ro) ==
    /\ Running
    /\ HeldCount < MaxHeld
    /\ \E r \in {makeDataLock(State, p, n, ro)} :
          /\ Commit(r.s)
          /\ held' = IF r.ok THEN Hold(p) ELSE held
          /\ last' = Seen(r.s, [op |-> "makeDataLock", p |-> p, n |-> n, ro |-> ro,
                                ok |-> r.ok,
                                c |-> r.c, i |-> r.i, size |-> r.size])
    /\ ops' = ops + 1
    /\ UNCHANGED <<shadow, wrote, live, failed>>

MakeFittingLock(p, n, ro) ==
    /\ Running
    /\ HeldCount < MaxHeld
    /\ \E r \in {makeFittingLock(State, p, n, ro)} :
          /\ Commit(r.s)
          /\ held' = IF r.ok THEN Hold(p) ELSE held
          /\ last' = Seen(r.s, [op |-> "makeFittingLock", p |-> p, n |-> n, ro |-> ro,
                                ok |-> r.ok,
                                c |-> r.c, i |-> r.i, size |-> r.size])
    /\ ops' = ops + 1
    /\ UNCHANGED <<shadow, wrote, live, failed>>

ReleaseLock(p) ==
    /\ Running
    /\ p \in DOMAIN held
    /\ \E s \in {releaseLock(State, p)} :
          /\ Commit(s)
          /\ held' = IF s.fault = "" THEN Unhold(p) ELSE held
          /\ last' = Seen(s, [op |-> "releaseLock", p |-> p])
    /\ ops' = ops + 1
    /\ UNCHANGED <<shadow, wrote, live, failed>>

Flush ==
    /\ Running
    /\ Commit(flush(State))
    /\ last' = [op |-> "flush"]
    /\ ops' = ops + 1
    /\ UNCHANGED <<shadow, wrote, live, failed, held>>

ClearPages ==
    /\ Running
    /\ Commit(clearPages(State))
    /\ last' = [op |-> "clearPages"]
    /\ ops' = ops + 1
    /\ UNCHANGED <<shadow, wrote, live, failed, held>>

\* the caller stores d through the native pointer the last lock call returned
\* (pool + offset of slot i of class c); it may do so when the lock is not
\* read-only, and stores no more than the size the lock covers
StoreLocked(v) ==
    /\ Running
    /\ last.op \in {"makeDataLock", "makeFittingLock"}
    /\ last.ok
    /\ ~last.ro
    /\ \E s \in {PoolWrite(State, last.c, last.i, last.p - pg[last.c][last.i].start,
                           Data(v, last.size))} :
          /\ Commit(s)
          /\ shadow' = IF s.fault = "" THEN Stored(shadow, last.p, Data(v, last.size))
                       ELSE shadow
          /\ wrote' = IF s.fault = ""
                      THEN Untouched(wrote, last.p, last.size) \cup {<<last.p, last.size>>}
                      ELSE wrote
          /\ last' = Seen(s, [op |-> "store", p |-> last.p, n |-> last.size])
    /\ UNCHANGED <<ops, live, failed, held>>

(* ------------- SpecPage: paging and locks, every public call ---------- *)
PageRead == ops < MaxOps /\ \E r \in Ranges : Read(r[1], r[2])
PageWrite == ops < MaxOps /\ \E r \in Ranges, v \in 1..MaxVal : Write(r[1], r[2], v)
PageDataLock ==
    ops < MaxOps /\ \E r \in Ranges, ro \in BOOLEAN : MakeDataLock(r[1], r[2], ro)
PageFittingLock ==
    ops < MaxOps /\ \E r \in Ranges, ro \in BOOLEAN : MakeFittingLock(r[1], r[2], ro)
PageReleaseLock == ops < MaxOps /\ \E p \in DOMAIN held : ReleaseLock(p)
PageFlush == ops < MaxOps /\ Flush
PageClearPages == ops < MaxOps /\ ClearPages

NextPage ==
    \/ PageRead
    \/ PageWrite
    \/ PageDataLock
    \/ PageFittingLock
    \/ PageReleaseLock
    \/ PageFlush
    \/ PageClearPages

SpecPage == Init /\ [][NextPage]_vars


(* -------- SpecCoherence: one big page, its neighbourhood, locks ------- *)
\* the ranges of SpecCoherence: a big page at WinLo + 2, the cell whose page
\* reaches it from below, and the page that straddles its end
CohRanges == {<<WinLo, 1>>, <<WinLo + 2, bigSize>>, <<WinLo + bigSize + 1, bigSize>>}
CohRead == ops < CohOps /\ \E r \in CohRanges : Read(r[1], r[2])
\* every write of SpecCoherence stores the pattern Data(1, n)
CohWrite == ops < CohOps /\ \E r \in CohRanges : Write(r[1], r[2], 1)
CohDataLock == ops < CohOps /\ \E r \in CohRanges : MakeDataLock(r[1], r[2], FALSE)
CohReleaseLock == ops < CohOps /\ \E p \in DOMAIN held : ReleaseLock(p)
CohFlush == ops < CohOps /\ Flush

NextCoherence ==
    \/ CohRead
    \/ CohWrite
    \/ CohDataLock
    \/ CohReleaseLock
    \/ CohFlush

SpecCoherence == Init /\ [][NextCoherence]_vars

(* ------- SpecWriteBack: locks written through and read back ---------- *)
\* the ranges locked and read: one range of each size up to a big page; the
\* big one lies across the end of the medium one
WbRanges == {<<WbLo, 1>>, <<WbLo, mediumSize>>, <<WbLo + 1, bigSize>>}
WbDataLock == ops < WbOps /\ \E r \in WbRanges : MakeDataLock(r[1], r[2], FALSE)
WbFittingLock == ops < WbOps /\ \E r \in WbRanges : MakeFittingLock(r[1], r[2], FALSE)
WbStore == StoreLocked(1)
WbReleaseLock == ops < WbOps /\ \E p \in DOMAIN held : ReleaseLock(p)
WbRead == ops < WbOps /\ \E r \in WbRanges : Read(r[1], r[2])
WbFlush == ops < WbOps /\ Flush
NextWriteBack ==
    \/ WbDataLock
    \/ WbFittingLock
    \/ WbStore
    \/ WbReleaseLock
    \/ WbRead
    \/ WbFlush

SpecWriteBack == Init /\ [][NextWriteBack]_vars

(* ------ SpecLock: lock creation and release until no slot is left ----- *)
\* the ranges of SpecLock: one more than there are buffers, of every class's
\* size, two of them next to each other and two overlapping
LockRanges == {<<LockLo, 1>>, <<LockLo + 1, 1>>, <<LockLo + 2, mediumSize>>,
               <<LockLo + 3, bigSize>>, <<LockLo + 7, bigSize>>}
LockDataLock == ops < LockOps /\ \E r \in LockRanges : MakeDataLock(r[1], r[2], FALSE)
LockFittingLock ==
    ops < LockOps /\ \E r \in LockRanges : MakeFittingLock(r[1], r[2], FALSE)
LockReleaseLock == ops < LockOps /\ \E p \in DOMAIN held : ReleaseLock(p)

NextLock ==
    \/ LockDataLock
    \/ LockFittingLock
    \/ LockReleaseLock

SpecLock == Init /\ [][NextLock]_vars

(* ------------- SpecAlloc: the allocator and block payloads ------------ *)
\* the outcomes of a call: as computed, or, where it passed an ASSERT(false)
\* in front of a "return 0", the program ended by that assertion
Outcomes(s) ==
    {s} \cup (IF s.asserts # {} /\ s.fault = "" THEN {Fault(s, "assertfalse")} ELSE {})

Moved(f) == [b \in DOMAIN f |-> [f[b] EXCEPT !.moved = TRUE]]

AllocRaw(n) ==
    /\ Running
    /\ \E r \in {allocRaw(State, n)} :
          \E o \in Outcomes(r.s) :
            /\ Commit(o)
            /\ live' = IF o.fault # "" THEN live
                       ELSE IF r.r = 0 THEN Moved(live)
                       ELSE Moved(live) @@ (r.r :> [n |-> n, pat |-> 0, moved |-> FALSE])
            /\ failed' = IF o.fault = "" /\ r.r = 0 THEN failed \cup {n} ELSE failed
            /\ last' = Seen(o, [op |-> "allocRaw", n |-> n, r |-> r.r,
                                 pos |-> poolFreePos,
                                 freed |-> IF last.op = "freeRaw" THEN last.n ELSE 0,
                                 starved |-> last.op = "freeRaw" /\ last.starved])
    /\ ops' = ops + 1
    /\ UNCHANGED <<shadow, wrote, held>>

FreeRaw(b) ==
    /\ Running
    /\ b \in DOMAIN live
    /\ \E s \in {freeRaw(State, b)} :
          /\ Commit(s)
          /\ live' = IF s.fault # "" THEN live
                     ELSE Moved([x \in DOMAIN live \ {b} |-> live[x]])
          /\ failed' = IF s.fault = "" THEN {} ELSE failed
          /\ last' = Seen(s, [op |-> "freeRaw", p |-> b, n |-> live[b].n,
                               starved |-> failed # {}])
    /\ ops' = ops + 1
    /\ UNCHANGED <<shadow, wrote, held>>

WriteBlock(b, v) ==
    /\ Running
    /\ b \in DOMAIN live
    /\ live[b].n <= bigSize
    /\ \E s \in {write(State, b, Data(v, live[b].n))} :
          /\ Commit(s)
          /\ live' = IF s.fault # "" THEN live
                     ELSE [live EXCEPT ![b].pat = v, ![b].moved = FALSE]
          /\ last' = Seen(s, [op |-> "write", p |-> b, n |-> live[b].n])
    /\ ops' = ops + 1
    /\ UNCHANGED <<shadow, wrote, failed, held>>

ReadBlock(b) ==
    /\ Running
    /\ b \in DOMAIN live
    /\ live[b].pat # 0
    /\ \E r \in {read(State, b, live[b].n)} :
          /\ Commit(r.s)
          /\ last' = Seen(r.s, [op |-> "readBlock", p |-> b, n |-> live[b].n,
                                data |-> r.data, expect |-> Data(live[b].pat, live[b].n),
                                moved |-> live[b].moved])
    /\ ops' = ops + 1
    /\ UNCHANGED <<shadow, wrote, live, failed, held>>

\* the sizes asked of allocRaw: the small ones, a large one, and one no
\* pool can hold
AllocSizes == (1..MaxAlloc) \cup {BigAlloc, poolSize}
AllocAlloc == ops < AllocOps /\ \E n \in AllocSizes : AllocRaw(n)
AllocFree == ops < AllocOps /\ \E b \in DOMAIN live : FreeRaw(b)
AllocWrite == ops < AllocOps /\ \E b \in DOMAIN live, v \in 1..MaxVal : WriteBlock(b, v)
AllocRead == ops < AllocOps /\ \E b \in DOMAIN live : ReadBlock(b)

NextAlloc ==
    \/ AllocAlloc
    \/ AllocFree
    \/ AllocWrite
    \/ AllocRead

SpecAlloc == Init /\ [][NextAlloc]_vars


(* ---------------- the heap as the allocator's callers see it ---------- *)
Range(f) == {f[k] : k \in DOMAIN f}

\* the header at address a, as getHeaderConst hands it out in state s
HeaderAt(s, a) == getHeaderConst(s, a).h

\* an address a free-list node can have
IsNode(a) == a = BASE_INDEX \/ (a >= START_OFFSET + HeaderSize /\ a + HeaderSize <= poolSize)

\* the nodes of the free list of state s in the order of next, from
\* freePointer to the node whose next is freePointer again; a walk that
\* leaves the pool, or comes back to a node other than freePointer, ends in 0
RECURSIVE FreeWalk(_, _, _)
FreeWalk(s, a, seen) ==
    LET nx == HeaderAt(s, a).next
    IN IF nx = s.freePointer THEN seen
       ELSE IF nx \in Range(seen) \/ ~IsNode(nx) THEN Append(seen, 0)
       ELSE FreeWalk(s, nx, Append(seen, nx))

FreeNodes(s) ==
    IF s.freePointer = 0 THEN << >> ELSE FreeWalk(s, s.freePointer, <<s.freePointer>>)

\* the free-list blocks of state s: its nodes other than the RAM sentinel
FreeBlocks(s) == Range(FreeNodes(s)) \ {0, BASE_INDEX}

\* the headers laid out between the start of the heap and poolFreePos, each
\* found at the end of the block before it; 0 where a header has no size
RECURSIVE LayoutFrom(_, _, _)
LayoutFrom(s, a, fuel) ==
    IF a >= s.poolFreePos \/ fuel = 0 THEN << >>
    ELSE LET sz == HeaderAt(s, a).size
         IN IF sz = 0 THEN <<0>>
            ELSE <<a>> \o LayoutFrom(s, a + sz * HeaderSize, fuel - 1)

Blocks(s) == Range(LayoutFrom(s, START_OFFSET + HeaderSize, poolSize))

\* the blocks of the layout no caller holds
Unallocated(s) == {a \in Blocks(s) : a + HeaderSize \notin DOMAIN live}

\* the sum of the values of a function with a finite domain
RECURSIVE SumOver(_, _)
SumOver(S, g) ==
    IF S = {} THEN 0
    ELSE LET x == CHOOSE x \in S : TRUE IN g[x] + SumOver(S \ {x}, g)

\* header units on the free list, and in the blocks the callers hold
FreeUnits(s) ==
    SumOver(FreeBlocks(s), [a \in FreeBlocks(s) |-> HeaderAt(s, a).size])
LiveUnits(s) ==
    SumOver(DOMAIN live, [b \in DOMAIN live |-> HeaderAt(s, b - HeaderSize).size])

\* the links of the free list, the closing one included, that do not go up
Descents(N) == {k \in 1..Len(N) : N[(k % Len(N)) + 1] <= N[k]}

(* ------------------------------- claims ------------------------------- *)
\* C1: a read(p, n) that follows a write(p, d, n), with no write to a cell
\* of [p, p+n) in between, returns d.
ReadAfterWrite ==
    (last.op = "read" /\ <<last.p, last.n>> \in wrote) => last.data = last.expect

\* C2: a read of a live block returns the pattern last written to it,
\* whatever allocRaw and freeRaw calls on other blocks came in between.
AllocRoundTrip ==
    last.op = "readBlock" => last.data = last.expect

\* C2 witness: a block read back intact after allocator traffic
AllocRoundTripSeen ==
    last.op = "readBlock" /\ last.moved /\ last.data = last.expect

\* C3: once allocRaw has set the free list up, following next from
\* freePointer comes back to freePointer, every block no caller holds is on
\* the way, and the addresses go up along next but for one link, the one
\* from the highest node to the lowest.
FreeListSound ==
    freePointer # 0 =>
        LET N == FreeNodes(State)
        IN /\ 0 \notin Range(N)
           /\ 0 \notin Blocks(State)
           /\ Unallocated(State) \subseteq Range(N)
           /\ Cardinality(Descents(N)) = 1

\* C3 witness: a freeRaw that left two blocks and the sentinel on the list
FreeListSoundSeen ==
    /\ last.op = "freeRaw"
    /\ Cardinality(FreeBlocks(State)) >= 2
    /\ live # << >>
    /\ 0 \notin Range(FreeNodes(State))

\* C4 (as stated): free units and live units in bytes, plus the untouched
\* pool tail, make poolSize - START_OFFSET.
BytesConservedFromStartOffset ==
    last.op \in {"allocRaw", "freeRaw"} =>
        (FreeUnits(State) + LiveUnits(State)) * HeaderSize + (poolSize - poolFreePos)
            = poolSize - START_OFFSET

\* C4 (amended): free units and live units in bytes, plus the untouched
\* pool tail, make poolSize - START_OFFSET - sizeof(UMemHeader): the heap
\* begins one header above START_OFFSET.
BytesConserved ==
    (FreeUnits(State) + LiveUnits(State)) * HeaderSize + (poolSize - poolFreePos)
        = poolSize - START_OFFSET - HeaderSize

\* C4 witness: free blocks, live blocks and a pool tail after a freeRaw
BytesConservedSeen ==
    /\ last.op = "freeRaw"
    /\ FreeUnits(State) > 0
    /\ LiveUnits(State) > 0
    /\ poolFreePos < poolSize

\* C5: after a freeRaw no free-list block ends where another one begins.
FreedBlocksCoalesce ==
    last.op = "freeRaw" =>
        \A a \in FreeBlocks(State), b \in FreeBlocks(State) :
            a + HeaderAt(State, a).size * HeaderSize # b

\* C6: an allocRaw that finds neither a free block nor pool tail for the
\* request returns 0 to its caller; the program does not end in the call.
OutOfMemoryReturnsZero ==
    ~(fault = "assertfalse" /\ "oom" \in asserts)

\* the heap of the next state is the heap of this one: freePointer, the
\* sentinel, poolFreePos, and every header of the layout
HeadersKept ==
    /\ poolFreePos' = poolFreePos
    /\ \A a \in Blocks(State) : HeaderAt(State', a) = HeaderAt(State, a)
HeapKept ==
    /\ freePointer' = freePointer
    /\ baseFreeList' = baseFreeList
    /\ HeadersKept

\* C7 (as stated): an allocRaw that returns 0 leaves freePointer, the
\* sentinel, every header and poolFreePos as they were, the first allocRaw
\* after start included.
FailedAllocKeepsHeap ==
    [][(last'.op = "allocRaw" /\ last'.r = 0) => HeapKept]_vars

\* C7 (amended): an allocRaw that returns 0 leaves every header and
\* poolFreePos as they were, and freePointer and the sentinel too, unless it
\* is the first allocRaw after start: that one makes the sentinel the whole
\* free list (freePointer = BASE_INDEX = baseFreeList.next, size 0).
FailedAllocKeepsBlocks ==
    [][(last'.op = "allocRaw" /\ last'.r = 0) =>
          IF freePointer = 0
          THEN /\ freePointer' = BASE_INDEX
               /\ baseFreeList' = [next |-> BASE_INDEX, size |-> 0]
               /\ HeadersKept
          ELSE HeapKept]_vars

\* C7 witness: an allocRaw returned 0 with blocks live and blocks free
FailedAllocSeen ==
    /\ last.op = "allocRaw"
    /\ last.r = 0
    /\ live # << >>
    /\ FreeBlocks(State) # {}

\* C8 (as stated): every free-list block other than the sentinel has at
\* least MIN_ALLOC_SIZE header units.
FreeBlocksAtLeastMin ==
    \A a \in FreeBlocks(State) : HeaderAt(State, a).size >= MIN_ALLOC_SIZE

\* C8 (amended): every free-list block other than the sentinel has at least
\* one header unit, and every piece getMem takes off the pool tail has at
\* least MIN_ALLOC_SIZE units; the rest of a split, and a freed block, can be
\* smaller than MIN_ALLOC_SIZE.
FreeBlocksAtLeastOne ==
    [][/\ \A a \in FreeBlocks(State') : HeaderAt(State', a).size >= 1
       /\ poolFreePos' # poolFreePos =>
              poolFreePos' >= poolFreePos + MIN_ALLOC_SIZE * HeaderSize]_vars

\* C8 witness: allocRaw split a block and left less than MIN_ALLOC_SIZE
FreeBlockBelowMinSeen ==
    /\ last.op = "allocRaw"
    /\ last.r # 0
    /\ \E a \in FreeBlocks(State) :
          /\ HeaderAt(State, a).size < MIN_ALLOC_SIZE
          /\ a + HeaderAt(State, a).size * HeaderSize + HeaderSize = last.r

(* ----------------------- the pages of the cache ------------------------ *)
\* every page buffer of the three classes, free or locked
Pages == {x \in Classes \X (0..(Max(Max(smallCount, mediumCount), bigCount) - 1)) :
             x[2] < PCount(x[1])}
Mapped == {x \in Pages : pg[x[1]][x[2]].start # 0}
Disjoint(x, y) ==
    LET a == pg[x[1]][x[2]]
        b == pg[y[1]][y[2]]
    IN a.start + a.size <= b.start \/ b.start + b.size <= a.start

\* the buffers of class c on the chain that begins at index i
RECURSIVE ChainFrom(_, _, _)
ChainFrom(c, i, fuel) ==
    IF i = -1 \/ fuel = 0 THEN {} ELSE {<<c, i>>} \cup ChainFrom(c, pg[c][i].next, fuel - 1)
FreeChain(c) == ChainFrom(c, freeIndex[c], PCount(c))
LockedChain(c) == ChainFrom(c, lockedIndex[c], PCount(c))

\* C9: when a public call has returned, no two mapped buffers cover a
\* common address; stated for the buffers read and write go through, the
\* free chain of the big class.
NoPageOverlap ==
    \A x \in Mapped \cap FreeChain(Big), y \in Mapped \cap FreeChain(Big) :
        x # y => Disjoint(x, y)

\* C10: when a public call has returned, a buffer with start = 0 is neither
\* dirty nor locked.
UnmappedCleanUnpinned ==
    \A x \in Pages :
        pg[x[1]][x[2]].start = 0 => ~pg[x[1]][x[2]].dirty /\ pg[x[1]][x[2]].locks = 0

\* the slots met from slot i along next, in order; -2 stands for a walk that
\* did not end within fuel steps
RECURSIVE ChainList(_, _, _)
ChainList(c, i, fuel) ==
    IF i = -1 THEN << >>
    ELSE IF fuel = 0 \/ i \notin 0..(PCount(c) - 1) THEN <<-2>>
    ELSE <<i>> \o ChainList(c, pg[c][i].next, fuel - 1)
FreeList(c) == ChainList(c, freeIndex[c], PCount(c))
LockedList(c) == ChainList(c, lockedIndex[c], PCount(c))

\* C11: in every reachable state and for each size class, the free chain
\* and the locked chain end at -1 without a cycle, share no slot, and
\* together hold every slot 0..count-1 exactly once.
ChainPartition ==
    \A c \in Classes :
        /\ -2 \notin Range(FreeList(c)) \cup Range(LockedList(c))
        /\ Len(FreeList(c)) + Len(LockedList(c)) = PCount(c)
        /\ Range(FreeList(c)) \cup Range(LockedList(c)) = 0..(PCount(c) - 1)

\* a big page went to the locked chain and came back while another buffer
\* stays locked
ChainPartitionSeen ==
    /\ last.op = "releaseLock"
    /\ FreeList(Big) = <<1, 0>>
    /\ \E c \in Classes : LockedList(c) # << >>

\* C12: after write calls and lock creations, once every lock is released,
\* a flush leaves in the backing store the cell last written to every
\* address (what a read after start, which unmaps every page, returns).
\* Data never stores 0, so the written cells are those with shadow # 0.
FlushedStoreCurrent ==
    (last.op = "flush" /\ HeldCount = 0) =>
        \A a \in DOMAIN store : shadow[a] # 0 => store[a] = shadow[a]

\* the cells of the backing store a big page mapped at start stands for
PageSpan(start) == Min(poolSize - start, bigSize)

\* C13: when flush returns, every mapped page of the big free chain is
\* clean and the backing store holds, from its start on, the contents of
\* its buffer.
FlushedPagesInStore ==
    last.op = "flush" =>
        \A x \in Mapped \cap FreeChain(Big) :
            /\ ~pg[Big][x[2]].dirty
            /\ doRead(State, pg[Big][x[2]].start, PageSpan(pg[Big][x[2]].start)) =
                 PoolRead(State, Big, x[2], 0, PageSpan(pg[Big][x[2]].start))

\* the buffers some caller holds a lock on
Pinned == {x \in Pages : pg[x[1]][x[2]].locks > 0}
\* the cell of buffer x that stands for address a
BufferCell(x, a) == mem[x[1]][x[2] * PSize(x[1]) + a - pg[x[1]][x[2]].start]

\* the buffer of the lock makeDataLock has just returned is on the locked
\* chain, mapped at p, and covers [p, p+n)
LockMade ==
    (last.op = "makeDataLock" /\ last.ok) =>
        /\ <<last.c, last.i>> \in LockedChain(last.c)
        /\ pg[last.c][last.i].start = last.p
        /\ pg[last.c][last.i].size >= last.n

\* a call other than the last releaseLock of a buffer leaves the buffer on
\* the locked chain, mapped where it was and no smaller
LockKept ==
    \A x \in Pinned :
        (last'.op = "releaseLock" => pg'[x[1]][x[2]].locks > 0) =>
            /\ x \in LockedChain(x[1])'
            /\ pg'[x[1]][x[2]].locks > 0
            /\ pg'[x[1]][x[2]].start = pg[x[1]][x[2]].start
            /\ pg'[x[1]][x[2]].size >= pg[x[1]][x[2]].size

\* a write stores its bytes into every locked buffer, where they fall inside
\* the range the buffer covers
LockWritten ==
    last'.op = "write" =>
        \A x \in Pinned :
            \A a \in pg[x[1]][x[2]].start..(pg[x[1]][x[2]].start + pg[x[1]][x[2]].size - 1) :
                (a >= last'.p /\ a < last'.p + last'.n) => BufferCell(x, a)' = shadow'[a]

\* C14: from the return of makeDataLock(p, n, ro) to the matching
\* releaseLock(p) the buffer of the lock stays on the locked chain, mapped at
\* p and covering [p, p+n), whatever other calls run, and every write stores
\* into it the bytes that fall inside [p, p+n).
LockStable == [][last'.op # "fault" => LockMade' /\ LockKept /\ LockWritten]_vars

\* C15: a makeDataLock, at whatever address and of whatever size, neither
\* reduces the size of a buffer that was locked with locks > 0 before the
\* call nor frees it; only buffers with locks = 0 are shrunk or freed.
HeldLocksKeepSize ==
    [][last'.op = "makeDataLock" =>
         \A x \in Pinned :
             /\ pg'[x[1]][x[2]].size >= pg[x[1]][x[2]].size
             /\ x \in LockedChain(x[1])']_vars

\* C16: a makeFittingLock, whether it makes a lock or returns 0, leaves the
\* start and the size of every buffer that was locked with locks > 0
\* before the call as they were.
FittingLockKeepsHeld ==
    [][last'.op = "makeFittingLock" =>
         \A x \in Pinned :
             /\ pg'[x[1]][x[2]].start = pg[x[1]][x[2]].start
             /\ pg'[x[1]][x[2]].size = pg[x[1]][x[2]].size]_vars

\* a makeFittingLock took a new slot for a request that ran into a held
\* buffer, and was cut to end where that buffer begins
FittingLockKeepsHeldSeen ==
    /\ last.op = "makeFittingLock"
    /\ last.ok
    /\ last.size < last.n
    /\ pg[last.c][last.i].locks = 1
    /\ \E x \in Pinned : x # <<last.c, last.i>> /\
                          pg[x[1]][x[2]].start = last.p + last.size

\* C17: when makeFittingLock(ptr, n, ro) has made a lock, the size it hands
\* back is at least 1 and at most the n asked for, [ptr, ptr+size) lies
\* inside the one locked buffer the returned pointer addresses, which is no
\* larger than its class, and the range meets no other buffer with
\* locks > 0.
FittingLockSpan ==
    (last.op = "makeFittingLock" /\ last.ok) =>
        /\ 1 <= last.size /\ last.size <= last.n
        /\ <<last.c, last.i>> \in LockedChain(last.c)
        /\ pg[last.c][last.i].start <= last.p
        /\ last.p + last.size <= pg[last.c][last.i].start + pg[last.c][last.i].size
        /\ pg[last.c][last.i].size <= PSize(last.c)
        /\ \A x \in Pinned \ {<<last.c, last.i>>} :
              \/ last.p + last.size <= pg[x[1]][x[2]].start
              \/ pg[x[1]][x[2]].start + pg[x[1]][x[2]].size <= last.p

\* a makeFittingLock reused a held buffer from an inner address on and cut
\* the request to the buffer's end
FittingLockSpanSeen ==
    /\ last.op = "makeFittingLock"
    /\ last.ok
    /\ last.size < last.n
    /\ pg[last.c][last.i].locks = 2
    /\ pg[last.c][last.i].start < last.p

\* releaseLock(p) of a lock the caller holds finds a buffer to release
ReleaseFinds == fault' # "release"

\* releaseLock(p) takes one lock off the buffer findLockedPage(p) names and
\* leaves the counts of the other buffers alone
ReleaseDecrements ==
    last'.op = "releaseLock" =>
        \E x \in {findLockedPage(State, last'.p)} :
            /\ x[2] # -1
            /\ \A y \in Pages :
                  pg'[y[1]][y[2]].locks = pg[y[1]][y[2]].locks - (IF y = x THEN 1 ELSE 0)

ChainsKept(C) == \A c \in C : FreeList(c)' = FreeList(c) /\ LockedList(c)' = LockedList(c)

\* the chains after releaseLock(p): as they were while the count stays above
\* zero or the buffer is small or medium, the big buffer moved to the free
\* chain otherwise
ReleaseChains ==
    last'.op = "releaseLock" =>
        \E x \in {findLockedPage(State, last'.p)} :
            /\ x[2] # -1
            /\ IF pg'[x[1]][x[2]].locks > 0 THEN ChainsKept(Classes)
               ELSE IF x[1] = Big
               THEN /\ ChainsKept(Classes \ {Big})
                    /\ LockedChain(Big)' = LockedChain(Big) \ {x}
                    /\ FreeChain(Big)' = FreeChain(Big) \cup {x}
               ELSE /\ ChainsKept(Classes)
                    /\ pg'[x[1]][x[2]].start = pg[x[1]][x[2]].start
                    /\ pg'[x[1]][x[2]].size = pg[x[1]][x[2]].size

\* C18: releaseLock(p) decrements the lock count of the buffer containing p
\* by exactly one; when the count reaches zero a big-class buffer moves from
\* the locked chain to the big free chain, a small- or medium-class buffer
\* stays in its locked chain, still mapped, with locks = 0; when the count
\* stays above zero no chain changes.
ReleaseLockStep == [][ReleaseFinds /\ ReleaseDecrements /\ ReleaseChains]_vars

\* the last call was a makeDataLock or makeFittingLock that returned 0
LockFailed == last.op \in {"makeDataLock", "makeFittingLock"} /\ ~last.ok

\* the fields of a page the lock calls publish
PageFields(x) == <<pg[x[1]][x[2]].start, pg[x[1]][x[2]].size,
                   pg[x[1]][x[2]].locks, pg[x[1]][x[2]].dirty>>

LockWriteBack ==
    (last.op = "read" /\ <<last.p, last.n>> \in wrote /\ last.p \notin DOMAIN held) =>
        last.data = last.expect

\* the step is a makeDataLock that made its lock in a buffer other than x
\* while x was held and began before, and ended after, the address locked
FixesBeginning(x) ==
    /\ last'.op = "makeDataLock"
    /\ last'.ok
    /\ x \in Pinned
    /\ x # <<last'.c, last'.i>>
    /\ pg[x[1]][x[2]].start < last'.p
    /\ last'.p < pg[x[1]][x[2]].start + pg[x[1]][x[2]].size

\* the new buffer begins with the bytes the buffer x held from ptr on
FixCopies ==
    \A x \in Pages : FixesBeginning(x) =>
        \A a \in last'.p..(Min(pg[x[1]][x[2]].start + pg[x[1]][x[2]].size,
                               last'.p + last'.n) - 1) :
            \A y \in {<<last'.c, last'.i>>} : BufferCell(y, a)' = BufferCell(x, a)

\* the buffer x keeps its bytes below ptr only
FixShrinks ==
    \A x \in Pages : FixesBeginning(x) =>
        /\ pg'[x[1]][x[2]].start = pg[x[1]][x[2]].start
        /\ pg'[x[1]][x[2]].size = last'.p - pg[x[1]][x[2]].start

\* after the step the cell v of address a is in the store, or in a buffer of
\* a locked chain or a mapped page of the big free chain that covers a
HeldAfter(a, v) ==
    \/ store'[a] = v
    \/ \E y \in UNION {LockedChain(c)' : c \in Classes} \cup (FreeChain(Big)' \cap Mapped') :
          /\ pg'[y[1]][y[2]].start <= a
          /\ a < pg'[y[1]][y[2]].start + pg'[y[1]][y[2]].size
          /\ BufferCell(y, a)' = v

\* no byte of a dirty buffer x is lost
FixKeepsBytes ==
    \A x \in Pages : (FixesBeginning(x) /\ pg[x[1]][x[2]].dirty) =>
        \A a \in pg[x[1]][x[2]].start..(pg[x[1]][x[2]].start + pg[x[1]][x[2]].size - 1) :
            HeldAfter(a, BufferCell(x, a))

\* C21: when makeDataLock(ptr, n) creates a new buffer while a held buffer
\* [s, s+S) has s < ptr < s+S, the new buffer's first min(S-(ptr-s), n) bytes
\* are copied from the held buffer, the held buffer's size becomes ptr-s, and
\* every dirty byte of its former range is afterwards held by it, the new
\* buffer, the page cache or the backing store.
FixBeginningOverlap == [][FixCopies /\ FixShrinks /\ FixKeepsBytes]_vars

\* the calls pullRawData(p, size, readonly, forcestart) of a range inside the
\* pool
PullArgs ==
    {a \in (1..(poolSize - 1)) \X (1..bigSize) \X BOOLEAN \X BOOLEAN :
        a[1] + a[2] <= poolSize}

\* C22: when a mapped page of the big free chain already contains
\* [p, p+size) (or, with forcestart, starts at p), pullRawData calls neither
\* doRead nor doWrite and changes no page's start, size or chain position and
\* not nextPageToSwap; the only possible change is the hit page's dirty bit,
\* set when readonly is false.
FullHitNoIO ==
    \A a \in PullArgs :
        \A hit \in {findFreePage(State, Big, a[1], a[2], a[4])} \ {-1} :
            pullRawData(State, a[1], a[2], a[3], a[4]) =
                [s |-> [State EXCEPT !.pg[Big][hit].dirty = @ \/ ~a[3]], idx |-> hit]

\* a write has left a dirty page beside a clean mapped page, which a call
\* for an inner range of it hits
FullHitSeen ==
    /\ last.op = "write"
    /\ \E x, y \in FreeChain(Big) \cap Mapped :
          /\ x # y
          /\ pg[x[1]][x[2]].dirty
          /\ ~pg[y[1]][y[2]].dirty
          /\ findFreePage(State, Big, pg[y[1]][y[2]].start + 1, 1, FALSE) = y[2]

\* the mapped pages of the big free chain whose range shares a cell with the
\* page pullRawData would load at p
Overlapping(p) ==
    {x \in FreeChain(Big) \cap Mapped :
        pg[x[1]][x[2]].start < p + bigSize /\ p < pg[x[1]][x[2]].start + bigSize}

\* the rank of the page a miss takes, sel being the selection made: 1 a page
\* that overlapped, 2 an unmapped page, 3 a clean or aged page, 4 the dirty
\* page at nextPageToSwap, 5 anything else
VictimRank(sel, p) ==
    IF <<Big, sel.pageindex>> \in Overlapping(p) THEN 1
    ELSE IF <<Big, sel.pageindex>> \in FreeChain(Big) \ Mapped THEN 2
    ELSE IF <<Big, sel.pageindex>> \in FreeChain(Big) /\
            (~pg[Big][sel.pageindex].dirty \/
             sel.s.pg[Big][sel.pageindex].cleanSkips >= PAGE_MAX_CLEAN_SKIPS) THEN 3
    ELSE IF sel.pageindex = nextPageToSwap /\ <<Big, sel.pageindex>> \in FreeChain(Big) THEN 4
    ELSE 5

\* the best rank the big free chain offers to a miss at p
BestRank(sel, p) ==
    IF Overlapping(p) # {} THEN 1
    ELSE IF FreeChain(Big) \ Mapped # {} THEN 2
    ELSE IF \E x \in FreeChain(Big) :
               ~pg[x[1]][x[2]].dirty \/
               sel.s.pg[x[1]][x[2]].cleanSkips >= PAGE_MAX_CLEAN_SKIPS THEN 3
    ELSE 4

\* C23: on a miss pullRawData reuses a page that overlapped the requested
\* range if there is one; otherwise an unmapped page if there is one;
\* otherwise a page that is not dirty or whose cleanSkips has reached
\* PAGE_MAX_CLEAN_SKIPS if there is one; and only otherwise the dirty page at
\* index nextPageToSwap. Asked of every call that misses while the big free
\* chain holds a page.
VictimPriority ==
    \A a \in PullArgs :
        (FreeChain(Big) # {} /\ findFreePage(State, Big, a[1], a[2], a[4]) = -1) =>
            \A sel \in {pullSelect(State, a[1], a[2], a[4])} :
                VictimRank(sel, a[1]) = BestRank(sel, a[1])

\* C24: at the return of every public call, any two distinct mapped pages of
\* the big free chain have disjoint ranges [start, start + bigPages.size),
\* release of a full-size big lock into the free chain included.
CachePagesDisjoint ==
    \A x, y \in FreeChain(Big) \cap Mapped :
        x # y => \/ pg[x[1]][x[2]].start + bigSize <= pg[y[1]][y[2]].start
                 \/ pg[y[1]][y[2]].start + bigSize <= pg[x[1]][x[2]].start

\* the cell the page cache holds for address a: that of a mapped page of the
\* big free chain covering a, the store's otherwise
CacheCell(a) ==
    IF \E x \in FreeChain(Big) \cap Mapped :
          pg[x[1]][x[2]].start <= a /\ a < pg[x[1]][x[2]].start + pg[x[1]][x[2]].size
    THEN BufferCell(CHOOSE x \in FreeChain(Big) \cap Mapped :
                        pg[x[1]][x[2]].start <= a /\
                        a < pg[x[1]][x[2]].start + pg[x[1]][x[2]].size, a)
    ELSE store[a]

\* the calls saveRawData(src, p, size) tried in a state: src is what the
\* cache holds at [p, p+size), as it is or with the cell at flip changed
SaveArgs ==
    {a \in (SaveLo..(poolSize - 1)) \X (1..bigSize) \X (0..bigSize) :
        a[1] + a[2] <= poolSize /\ a[3] <= a[2]}
SaveSrc(a) ==
    [k \in 1..a[2] |-> IF k = a[3] THEN (CacheCell(a[1] + k - 1) + 1) % (MaxVal + 1)
                       ELSE CacheCell(a[1] + k - 1)]

\* some cell of page x differs from the cell of src saved at its address
SaveDiffers(x, src, p) ==
    \E a \in p..(p + Len(src) - 1) :
        /\ pg[x[1]][x[2]].start <= a
        /\ a < pg[x[1]][x[2]].start + pg[x[1]][x[2]].size
        /\ BufferCell(x, a) # src[a - p + 1]

\* C25: when the bytes saveRawData saves into a mapped, non-dirty page of
\* the big free chain are identical to the bytes the page holds, the page
\* stays non-dirty and its buffer is unchanged; saveRawData sets a page's
\* dirty bit only if it was already dirty or some destination byte differs
\* from the source.
SaveKeepsClean ==
    \A a \in SaveArgs : \A src \in {SaveSrc(a)} :
        \A r \in {saveRawData(State, src, a[1])} :
            \A x \in FreeChain(Big) \cap Mapped : \A differs \in {SaveDiffers(x, src, a[1])} :
                /\ r.pg[x[1]][x[2]].dirty => pg[x[1]][x[2]].dirty \/ differs
                /\ (~pg[x[1]][x[2]].dirty /\ ~differs) =>
                      /\ ~r.pg[x[1]][x[2]].dirty
                      /\ PoolRead(r, Big, x[2], 0, bigSize) =
                            PoolRead(State, Big, x[2], 0, bigSize)

\* a read has left a clean mapped page beside a dirty one, so that a save of
\* the same bytes and a save of other bytes into a clean page both happen
SaveKeepsCleanSeen ==
    /\ last.op = "read"
    /\ \E x, y \in FreeChain(Big) \cap Mapped :
          /\ ~pg[x[1]][x[2]].dirty
          /\ pg[y[1]][y[2]].dirty
          /\ \E k \in 0..(bigSize - 1) : BufferCell(x, pg[x[1]][x[2]].start + k) # 0

\* class c has a free slot; class c has a locked slot no lock is held on
HasFree(c) == freeIndex[c] # -1
HasUnused(c) == \E x \in LockedChain(c) : pg[x[1]][x[2]].locks = 0

\* [p, p+n) shares no cell with a buffer of a locked chain
LocksClear(p, n) ==
    \A c \in Classes : \A x \in LockedChain(c) :
        p + n <= pg[x[1]][x[2]].start \/ pg[x[1]][x[2]].start + pg[x[1]][x[2]].size <= p

\* the class the sentence gives a request of n bytes, 0 when it must fail
ChosenClass(n) ==
    LET pref == DataLockClass(n)
        larger == {c \in Classes : c > pref}
    IN IF HasFree(pref) \/ HasUnused(pref) THEN pref
       ELSE IF \E c \in larger : HasFree(c)
       THEN CHOOSE c \in larger : HasFree(c) /\ \A d \in larger : HasFree(d) => c <= d
       ELSE IF \E c \in larger : HasUnused(c)
       THEN CHOOSE c \in larger : HasUnused(c) /\ \A d \in larger : HasUnused(d) => c <= d
       ELSE 0

\* C26: a makeDataLock of n bytes that overlaps no locked buffer is placed in
\* the smallest class whose page size is >= n when that class has a free
\* slot or an unused locked slot; only then in a larger class (a free slot,
\* else a remembered unused slot); and it fails only when none exists.
DataLockClassChoice ==
    [][(last'.op = "makeDataLock" /\ LocksClear(last'.p, last'.n)) =>
          IF ChosenClass(last'.n) = 0 THEN ~last'.ok
          ELSE last'.ok /\ last'.c = ChosenClass(last'.n)]_vars

\* a makeDataLock of the full size asked for went to a larger class while the
\* smallest fitting class has neither a free nor an unused slot, and its
\* buffer meets no other buffer of a locked chain
DataLockClassChoiceSeen ==
    /\ last.op = "makeDataLock"
    /\ last.ok
    /\ last.size = last.n
    /\ last.c > DataLockClass(last.n)
    /\ ~HasFree(DataLockClass(last.n))
    /\ ~HasUnused(DataLockClass(last.n))
    /\ \A c \in Classes : \A x \in LockedChain(c) \ {<<last.c, last.i>>} :
          \/ last.p + last.n <= pg[x[1]][x[2]].start
          \/ pg[x[1]][x[2]].start + pg[x[1]][x[2]].size <= last.p

\* the change a step makes to the lock count of page x: one more for the
\* buffer a successful lock call resolved to, one less for the buffer
\* releaseLock found, none otherwise
LockDelta(x) ==
    IF last'.op \in {"makeDataLock", "makeFittingLock"} /\ last'.ok /\
       x = <<last'.c, last'.i>> THEN 1
    ELSE IF last'.op = "releaseLock" /\ x = findLockedPage(State, last'.p) THEN -1
    ELSE 0

\* C27: each successful lock call adds one to the count of the buffer it
\* resolves to and each releaseLock takes one off; a buffer with locks > 0 is
\* never unlinked from its locked chain or mapped to another address, so a
\* count is never reset other than by releases.
LockCounting ==
    [][last'.op # "fault" =>
          /\ \A x \in Pages : pg'[x[1]][x[2]].locks = pg[x[1]][x[2]].locks + LockDelta(x)
          /\ \A x \in Pinned :
                pg'[x[1]][x[2]].locks > 0 =>
                   /\ x \in LockedChain(x[1])'
                   /\ pg'[x[1]][x[2]].start = pg[x[1]][x[2]].start]_vars

\* a buffer holds three locks
LockCountingSeen ==
    /\ last.op \in {"makeDataLock", "makeFittingLock"}
    /\ last.ok
    /\ pg[last.c][last.i].locks = 3

\* C28: in every reachable state each buffer of a locked chain has
\* 0 < size <= the page size of its class, and the assertion
\* size <= pinfo->size at the end of makeDataLock never fails.
LockedSizeBound ==
    /\ fault # "sizeclass"
    /\ \A c \in Classes : \A x \in LockedChain(c) :
          0 < pg[x[1]][x[2]].size /\ pg[x[1]][x[2]].size <= PSize(c)

\* a request cut by a held buffer was moved from the big class to a smaller
\* one, while another held buffer was cut at its end
LockedSizeBoundSeen ==
    /\ last.op = "makeDataLock"
    /\ last.ok
    /\ last.size < last.n
    /\ last.c < DataLockClass(last.n)
    /\ \E x \in Pinned : x[1] # Small /\ pg[x[1]][x[2]].size < PSize(x[1])

\* C29: an allocRaw(m) that directly follows the freeRaw of a live block
\* got by allocRaw(n), with 0 < m <= n, returns an address and leaves
\* poolFreePos where it was.
FreedReusable ==
    (last.op = "allocRaw" /\ last.freed # 0 /\ last.n <= last.freed)
        => (last.r # 0 /\ poolFreePos = last.pos)

\* C29 witness: the block comes from the free list after the pool tail was
\* used up and an allocRaw had returned 0
FreedReusableSeen ==
    /\ last.op = "allocRaw"
    /\ last.freed # 0
    /\ last.n <= last.freed
    /\ last.starved
    /\ last.r # 0
    /\ poolFreePos + MIN_ALLOC_SIZE * HeaderSize > poolSize

\* the headers of the blocks the callers hold, and those with the blocks of
\* the free list
LiveHeaders == {b - HeaderSize : b \in DOMAIN live}
HeapHeaders == LiveHeaders \cup FreeBlocks(State)

\* the first byte behind the block whose header is at h
BlockEnd(h) == h + HeaderAt(State, h).size * HeaderSize

\* C30: the header in front of every block a caller holds has the size
\* ceil(n / sizeof(UMemHeader)) + 1 of its request n; no block is both held
\* and on the free list; the byte ranges of the held blocks and of the
\* free-list blocks are pairwise disjoint and lie between
\* START_OFFSET + sizeof(UMemHeader) and poolFreePos.
BlocksDisjoint ==
    /\ \A b \in DOMAIN live :
          HeaderAt(State, b - HeaderSize).size = AllocQuantity(live[b].n)
    /\ LiveHeaders \cap FreeBlocks(State) = {}
    /\ \A h \in HeapHeaders :
          /\ START_OFFSET + HeaderSize <= h
          /\ h < BlockEnd(h)
          /\ BlockEnd(h) <= poolFreePos
    /\ \A h1 \in HeapHeaders : \A h2 \in HeapHeaders \ {h1} :
          BlockEnd(h1) <= h2 \/ BlockEnd(h2) <= h1

\* C30 witness: a block cut from a freed block while two more blocks are
\* held and a rest stays on the free list
BlocksDisjointSeen ==
    /\ last.op = "allocRaw"
    /\ last.r # 0
    /\ last.freed # 0
    /\ poolFreePos = last.pos
    /\ Cardinality(DOMAIN live) >= 3
    /\ FreeBlocks(State) # {}

\* the state allocRaw walks from: the free list set up where it was not
AllocPrepared ==
    IF freePointer = 0
    THEN [State EXCEPT !.baseFreeList = [next |-> BASE_INDEX, size |-> 0],
                       !.freePointer = BASE_INDEX]
    ELSE State

\* the walk of allocRaw(n) from this state, given steps iterations of its loop
WalkWithin(n, steps) ==
    allocRawWalk(AllocPrepared, AllocPrepared.freePointer,
                 HeaderAt(AllocPrepared, AllocPrepared.freePointer).next,
                 AllocQuantity(n), steps)

\* the scan of freeRaw(b) from this state, given steps iterations of its loop
ScanWithin(b, steps) == freeRawScan(State, freePointer, b - HeaderSize, steps)

\* C31: no allocRaw and no freeRaw of a held block runs on for ever; from
\* every reachable state the walk of allocRaw(n) ends within one iteration
\* per node of the free list and one more for the block getMem added, and
\* the scan of freeRaw(b) within one iteration per node.
AllocTerminates ==
    /\ fault # "loop"
    /\ Running =>
          /\ \A n \in AllocSizes :
                WalkWithin(n, Len(FreeNodes(AllocPrepared)) + 1).s.fault # "loop"
          /\ \A b \in DOMAIN live :
                ScanWithin(b, Len(FreeNodes(State))).s.fault # "loop"

\* C31 witness: an allocRaw that passed two free blocks too small for it,
\* took a block from getMem and still left held blocks that can be freed
AllocTerminatesSeen ==
    /\ last.op = "allocRaw"
    /\ last.r # 0
    /\ poolFreePos > last.pos
    /\ Cardinality(FreeBlocks(State)) >= 3
    /\ Cardinality(DOMAIN live) >= 2

\* C32: with every public call given a range inside the pool, no doWrite
\* goes outside [0, poolSize) (the fault "store") and no doRead does: no
\* cell of a page buffer or of the store holds what a read outside the pool
\* hands out.
StoreAccessInside ==
    /\ fault # "store"
    /\ \A c \in Classes : \A x \in DOMAIN mem[c] : mem[c][x] # -1
    /\ \A a \in DOMAIN store : store[a] # -1

\* C32 witness: a page mapped so that its buffer reaches past the end of the
\* pool was loaded, written to and written back by flush
StoreAccessInsideSeen ==
    /\ last.op = "flush"
    /\ store[poolSize - 1] # 0
    /\ \E x \in Mapped \cap FreeChain(Big) :
          /\ pg[Big][x[2]].start + bigSize > poolSize
          /\ ~pg[Big][x[2]].dirty

\* every page of the big free chain is mapped, dirty and not yet aged: one
\* more skip leaves its cleanSkips below PAGE_MAX_CLEAN_SKIPS
AllDirtyYoung ==
    \A x \in FreeChain(Big) :
        /\ pg[Big][x[2]].start # 0
        /\ pg[Big][x[2]].dirty
        /\ pg[Big][x[2]].cleanSkips + 1 < PAGE_MAX_CLEAN_SKIPS

\* C33: while the big free chain is not empty, nextPageToSwap is a slot of
\* it, the selection of pullRawData finds a page for every range inside the
\* pool, and the assertion pageindex != -1 fails in no call made in such a
\* state.
VictimFound ==
    /\ fault = "pageindex" => FreeChain(Big) = {}
    /\ FreeChain(Big) # {} =>
          /\ <<Big, nextPageToSwap>> \in FreeChain(Big)
          /\ \A a \in PullArgs :
                pullSelect(State, a[1], a[2], a[4]).pageindex # -1

\* C33 witness: all pages of the big free chain are mapped, dirty and not
\* aged, one big page is locked, and a range that touches none of them gets
\* the page nextPageToSwap names
VictimFoundSeen ==
    /\ Running
    /\ FreeChain(Big) # {}
    /\ LockedChain(Big) # {}
    /\ AllDirtyYoung
    /\ \E a \in PullArgs :
          \E r \in {pullSelect(State, a[1], a[2], a[4])} :
             r.state = STATE_GOTDIRTY /\ r.pageindex = nextPageToSwap

\* cell k of the buffer of page x
PoolCell(x, k) == mem[x[1]][x[2] * PSize(x[1]) + k]

\* C34: a write(p, d, n) changes, in the buffer of every page some caller
\* holds a lock on, only cells at offsets below the page's size that stand
\* for addresses of [p, p+n).
WriteInsideLocks ==
    [][last'.op = "write" =>
         \A x \in Pinned : \A k \in 0..(PSize(x[1]) - 1) :
            (\/ k >= pg[x[1]][x[2]].size
             \/ pg[x[1]][x[2]].start + k < last'.p
             \/ pg[x[1]][x[2]].start + k >= last'.p + last'.n)
                => PoolCell(x, k)' = PoolCell(x, k)]_vars

=============================================================================
